---- MODULE Spec2Model ----
(***************************************************************************)
(* A model of the books_bot library catalog: the BookDatabase store        *)
(* (src/utils/db_api/book_database.py) and the chat handlers that drive    *)
(* the category and upload dialogues (src/handlers/users/*.py).            *)
(*                                                                         *)
(* A message text is a sequence of one-character strings, so that strip(), *)
(* len() and slicing are computed as the handlers compute them.  A table   *)
(* is a function from the ids of its rows to the rows.  ids come from an   *)
(* AUTOINCREMENT counter and are never reused.                             *)
(***************************************************************************)
EXTENDS Integers, Sequences, FiniteSets, TLC

(* ------------------------------ bounds -------------------------------- *)

\* rows the Categories table may hold in the category specifications
MaxCats == 3
\* rows the Books table may hold
MaxBooks == 2
\* concurrent increment_download_count calls
NumDownloads == 3
\* records the queue of a bulk dialogue may hold
MaxQueue == 2
\* duplicate notices the errors list of a bulk dialogue may hold
MaxErrors == 1
\* records the batch of a guided batch dialogue may hold
MaxBatch == 1
\* records one add_books_bulk call is given, and rows the store
\* specifications let the Books table hold
MaxRecords == 5
\* values CURRENT_TIMESTAMP takes
MaxTime == 1
\* rows of the Books table the paginated queries are run on
MaxRows == 3

(* --------------------------- program constants ------------------------ *)

\* SQL NULL / Python None in an integer column or variable
NULL == -1
\* SQL NULL / Python None where a text is expected (no text holds this character)
NoText == <<"NULL">>
\* fetchone() returning no row
NoRow == [no_row |-> TRUE]

VARIABLES
    Categories,      \* table Categories: id -> row
    nextCategoryId,  \* AUTOINCREMENT counter of Categories
    Books,           \* table Books: id -> row
    nextBookId,      \* AUTOINCREMENT counter of Books
    pathCall,        \* the frame of a running get_category_path call
    dl,              \* the frames of the concurrent increment_download_count calls
    fsm,             \* FSM storage: operator -> the state of the operator's dialogue
    data,            \* FSM storage: operator -> the data collected in the dialogue
    registered,      \* the handlers defined inside collect_book_description are registered
    legacy_first,    \* adminlar.py was imported before batch_upload_handlers.py
    search_cache,    \* start.py, _search_cache: search id -> the query and its user
    search_id_counter, \* start.py, _search_id_counter
    searched,        \* the search_books calls of the search handler that ran last
    last             \* the update the dispatcher handled last

\* what only the search handlers touch
searchVars == <<search_cache, search_id_counter, searched>>

vars ==
    <<Categories, nextCategoryId, Books, nextBookId, pathCall, dl,
      fsm, data, registered, legacy_first, searchVars, last>>

\* what only the chat handlers touch
botVars == <<fsm, data, registered, legacy_first, searchVars, last>>

(* ------------------------------ text ---------------------------------- *)

\* the text made of n copies of the character c
Rep(c, n) == [i \in 1..n |-> c]

\* the characters str.strip() removes
Whitespace == {" ", "\n", "\t"}

RECURSIVE lstrip(_)
lstrip(s) == IF s # <<>> /\ Head(s) \in Whitespace THEN lstrip(Tail(s)) ELSE s

RECURSIVE rstrip(_)
rstrip(s) ==
    IF s # <<>> /\ s[Len(s)] \in Whitespace THEN rstrip(SubSeq(s, 1, Len(s) - 1)) ELSE s

\* str.strip()
strip(s) == rstrip(lstrip(s))

\* s[:n]
Truncate(s, n) == IF Len(s) <= n THEN s ELSE SubSeq(s, 1, n)

\* the separator " \u2192 " of get_category_path: "->" stands for the one character U+2192
Arrow == <<" ", "->", " ">>

\* " -> ".join(names)
RECURSIVE Join(_)
Join(names) ==
    IF names = <<>> THEN <<>>
    ELSE IF Len(names) = 1 THEN names[1]
    ELSE names[1] \o Arrow \o Join(Tail(names))

(* ------------------------------ tables -------------------------------- *)

EmptyTable == <<>>

Insert(table, id, row) ==
    [x \in DOMAIN table \cup {id} |-> IF x = id THEN row ELSE table[x]]

Remove(table, ids) == [x \in DOMAIN table \ ids |-> table[x]]

\* UPDATE <table> SET ... WHERE id = ?: no row, no change
UpdateRow(table, id, row) ==
    IF id \in DOMAIN table THEN [table EXCEPT ![id] = row] ELSE table

\* a row of Categories as INSERT INTO Categories makes it (is_deleted DEFAULT 0,
\* deleted_at with no default: NULL)
CategoryRow(name, created_by, description, parent_id) ==
    [name |-> name, description |-> description, parent_id |-> parent_id,
     created_by |-> created_by, is_deleted |-> FALSE, deleted_at |-> NULL]

\* an INSERT that binds the name to the description column and the
\* description to the name column
SwapsNameAndDescription(table, id, name, created_by, description, parent_id) ==
    Insert(table, id, CategoryRow(description, created_by, name, parent_id))

\* BookDatabase.add_category: INSERT INTO Categories
add_category(table, id, name, created_by, description, parent_id) ==
    Insert(table, id, CategoryRow(name, created_by, description, parent_id))

\* BookDatabase.get_category_by_id: the row, deleted or not, or NULL
get_category_by_id(table, category_id) ==
    IF category_id \in DOMAIN table THEN table[category_id] ELSE NoRow

\* BookDatabase.update_category with parent_id given: None changes nothing
update_category_parent(table, category_id, parent_id) ==
    IF parent_id = NULL THEN table
    ELSE IF category_id \in DOMAIN table
         THEN [table EXCEPT ![category_id].parent_id = parent_id]
         ELSE table

(* ------------------- get_category_path, step by step ------------------ *)

IdlePath ==
    [pc |-> "idle", category_id |-> NULL, current_id |-> NULL, visited |-> {},
     path |-> <<>>, lookups |-> <<>>, result |-> NoText]

IdleDownload == [pc |-> "idle", book_id |-> NULL, seen |-> NULL, result |-> NULL]

IdleDownloads == [p \in 1..NumDownloads |-> IdleDownload]

(* ---------------------- operators and their dialogues ------------------ *)

\* the telegram users that are administrators (data.config.ADMINS); each has a
\* Users row, and get_user_db_id gives the operator's own id
Operators == {1, 2}

\* FSMContext.get_state() of an operator in no dialogue
none == "none"

\* data['current_file'] holding None, or the key missing
NoFile == [no_file |-> TRUE]

\* FSMContext data after state.finish(): no key is set.  A key that is
\* missing reads as NULL (integers), NoText (texts), "" (file_id, file_type),
\* NoFile or the empty list, as data.get() reads it.
EmptyData ==
    [parent_id |-> NULL, cat_name |-> NoText, parent_cat_id |-> NULL,
     category_id |-> NULL, file_id |-> "", file_type |-> "", file_name |-> NoText,
     title |-> NoText, author |-> NoText, narrator |-> NoText,
     books_queue |-> <<>>, errors |-> <<>>, books_batch |-> <<>>,
     current_file |-> NoFile, edit_book_id |-> NULL]

\* an update: a text message, a message carrying a file, or a callback query
Update(op, kind, text, file_id, cb, arg) ==
    [op |-> op, kind |-> kind, text |-> text, file_id |-> file_id, cb |-> cb, arg |-> arg]

TextMessage(op, text) == Update(op, "text", text, "", "", NULL)
FileMessage(op, file_id, caption) == Update(op, "file", caption, file_id, "", NULL)
CallbackQuery(op, cb, arg) == Update(op, "callback", NoText, "", cb, arg)
NoUpdate == Update(NULL, "none", NoText, "", "", NULL)

InitStore ==
    /\ Categories = EmptyTable
    /\ nextCategoryId = 1
    /\ Books = EmptyTable
    /\ nextBookId = 1
    /\ pathCall = IdlePath
    /\ dl = IdleDownloads

\* _search_cache = {}, _search_id_counter = 0, and no search made yet
InitSearchCache ==
    /\ search_cache = EmptyTable
    /\ search_id_counter = 0
    /\ searched = <<>>

InitBot ==
    /\ fsm = [op \in Operators |-> none]
    /\ InitSearchCache
    /\ data = [op \in Operators |-> EmptyData]
    /\ registered = FALSE
    /\ last = NoUpdate

Init == InitStore /\ InitBot /\ legacy_first = FALSE

PathNames == {<<"L", "i", "t">>, <<"P", "o">>}

\* the store's add_category called while no path call runs
PathAddCategory(name, parent_id) ==
    /\ pathCall.pc = "idle"
    /\ nextCategoryId <= MaxCats
    /\ Categories' = add_category(Categories, nextCategoryId, name, 1, NoText, parent_id)
    /\ nextCategoryId' = nextCategoryId + 1
    /\ pathCall' = IdlePath
    /\ UNCHANGED <<Books, nextBookId, dl, botVars>>

\* the store's update_category(id, parent_id = p): no check of p at all
PathUpdateParent(category_id, parent_id) ==
    /\ pathCall.pc = "idle"
    /\ Categories' = update_category_parent(Categories, category_id, parent_id)
    /\ pathCall' = IdlePath
    /\ UNCHANGED <<nextCategoryId, Books, nextBookId, dl, botVars>>

\* get_category_path(category_id): path = [], current_id = category_id, visited = set()
get_category_path_call(category_id) ==
    /\ pathCall.pc = "idle"
    /\ pathCall' = [IdlePath EXCEPT !.pc = "loop", !.category_id = category_id,
                                    !.current_id = category_id]
    /\ UNCHANGED <<Categories, nextCategoryId, Books, nextBookId, dl, botVars>>

\* the test cycling the loop ignores the visited set
LoopsWithoutVisited(frame) == frame.current_id # NULL /\ frame.current_id # 0

\* while current_id and current_id not in visited
PathLoopCondition(frame) ==
    /\ frame.current_id # NULL
    /\ frame.current_id # 0
    /\ frame.current_id \notin frame.visited

\* one evaluation of the while condition and, when it holds, one run of the body
get_category_path_loop ==
    /\ pathCall.pc = "loop"
    /\ IF PathLoopCondition(pathCall)
       THEN LET category == get_category_by_id(Categories, pathCall.current_id)
                seen == [pathCall EXCEPT
                            !.visited = @ \cup {pathCall.current_id},
                            !.lookups = Append(@, pathCall.current_id)]
            IN  IF category # NoRow
                THEN pathCall' = [seen EXCEPT !.path = <<category.name>> \o @,
                                              !.current_id = category.parent_id]
                ELSE pathCall' = [seen EXCEPT !.pc = "return"]
       ELSE pathCall' = [pathCall EXCEPT !.pc = "return"]
    /\ UNCHANGED <<Categories, nextCategoryId, Books, nextBookId, dl, botVars>>

\* return " -> ".join(path) if path else ""
get_category_path_return ==
    /\ pathCall.pc = "return"
    /\ pathCall' = [pathCall EXCEPT !.pc = "idle", !.result = Join(pathCall.path)]
    /\ UNCHANGED <<Categories, nextCategoryId, Books, nextBookId, dl, botVars>>

NextPath ==
    \/ \E name \in PathNames, parent_id \in {NULL} \cup (1..MaxCats) :
          PathAddCategory(name, parent_id)
    \/ \E category_id \in 1..MaxCats, parent_id \in 1..MaxCats :
          PathUpdateParent(category_id, parent_id)
    \/ \E category_id \in 0..(MaxCats + 1) : get_category_path_call(category_id)
    \/ get_category_path_loop
    \/ get_category_path_return

SpecPath == Init /\ [][NextPath]_vars

HasDuplicates(s) == \E i, j \in 1..Len(s) : i # j /\ s[i] = s[j]

\* C1: whatever the Categories table holds (self-references and cycles of
\* parent_id included), a get_category_path call looks every id up at most
\* once, so it runs its loop body at most once per row plus once for an id
\* with no row, and then returns.
C1_PathTerminatesNoRevisit ==
    /\ ~HasDuplicates(pathCall.lookups)
    /\ Len(pathCall.lookups) <= Cardinality(DOMAIN Categories) + 1
    /\ pathCall.pc = "loop" => ENABLED get_category_path_loop
    /\ pathCall.pc = "return" => ENABLED get_category_path_return

\* a call on a category inside a parent_id cycle has returned
C1_Witness ==
    /\ pathCall.pc = "idle"
    /\ pathCall.result # NoText
    /\ pathCall.category_id \in DOMAIN Categories
    /\ Len(pathCall.lookups) >= 2
    /\ \E c \in DOMAIN Categories :
          /\ Categories[c].parent_id = pathCall.category_id
          /\ pathCall.lookups[Len(pathCall.lookups)] = c


(* ------------------------------- books -------------------------------- *)

PDF == "pdf"
AUDIO == "audio"

\* the files the chat platform hands over: the file_id fixes the content and its kind
FileKind(file_id) == IF file_id = "f1" THEN PDF ELSE IF file_id = "f2" THEN AUDIO ELSE "other"

\* a row of Books as INSERT INTO Books makes it (download_count DEFAULT 0,
\* is_deleted DEFAULT 0); duration and file_size are passed through untouched
\* and left out
BookRow(title, file_id, file_type, category_id, author, narrator, description, uploaded_by) ==
    [title |-> title, file_id |-> file_id, file_type |-> file_type,
     category_id |-> category_id, author |-> author, narrator |-> narrator,
     description |-> description, uploaded_by |-> uploaded_by,
     download_count |-> 0, is_deleted |-> FALSE, deleted_at |-> NULL]

\* BookDatabase.add_book: a plain INSERT; the Books schema declares no UNIQUE
\* column, so no file_id is ever refused
add_book(table, id, title, file_id, file_type, category_id, author, narrator, description, uploaded_by) ==
    Insert(table, id,
           BookRow(title, file_id, file_type, category_id, author, narrator,
                   description, uploaded_by))

(* --------------- increment_download_count, run concurrently ----------- *)

\* a caller that read the count and writes the read value plus one
ReadThenWrite(table, frame) ==
    IF frame.book_id \in DOMAIN table
    THEN [table EXCEPT ![frame.book_id].download_count = frame.seen + 1]
    ELSE table

\* UPDATE Books SET download_count = download_count + 1 WHERE id = ?
IncrementStatement(table, frame) ==
    IF frame.book_id \in DOMAIN table
    THEN [table EXCEPT ![frame.book_id].download_count = @ + 1]
    ELSE table

\* the store's add_book called for a file not yet in the catalog
IncAddBook(file_id) ==
    /\ nextBookId <= MaxBooks
    /\ \A b \in DOMAIN Books : Books[b].file_id # file_id
    /\ Books' = add_book(Books, nextBookId, <<"T", "i">>, file_id, FileKind(file_id),
                         1, NoText, NoText, NoText, 1)
    /\ nextBookId' = nextBookId + 1
    /\ UNCHANGED <<Categories, nextCategoryId, pathCall, dl, botVars>>

\* a download handler enters increment_download_count(book.id) for a book it fetched
increment_download_count_call(p, book_id) ==
    /\ dl[p].pc = "idle"
    /\ book_id \in DOMAIN Books
    /\ dl' = [dl EXCEPT ![p] = [pc |-> "update", book_id |-> book_id,
                                seen |-> Books[book_id].download_count,
                                result |-> NULL]]
    /\ UNCHANGED <<Categories, nextCategoryId, Books, nextBookId, pathCall, botVars>>

\* self.execute(UPDATE ..., commit=True): one statement
increment_download_count_update(p) ==
    /\ dl[p].pc = "update"
    /\ Books' = IncrementStatement(Books, dl[p])
    /\ dl' = [dl EXCEPT ![p].pc = "select"]
    /\ UNCHANGED <<Categories, nextCategoryId, nextBookId, pathCall, botVars>>

\* self.execute(SELECT download_count ...); return result[0] if result else 0
increment_download_count_select(p) ==
    /\ dl[p].pc = "select"
    /\ dl' = [dl EXCEPT ![p].pc = "done",
                        ![p].result = IF dl[p].book_id \in DOMAIN Books
                                      THEN Books[dl[p].book_id].download_count
                                      ELSE 0]
    /\ UNCHANGED <<Categories, nextCategoryId, Books, nextBookId, pathCall, botVars>>

NextIncrement ==
    \/ \E file_id \in {"f1", "f2", "f3"} : IncAddBook(file_id)
    \/ \E p \in 1..NumDownloads, book_id \in 1..MaxBooks :
          increment_download_count_call(p, book_id)
    \/ \E p \in 1..NumDownloads : increment_download_count_update(p)
    \/ \E p \in 1..NumDownloads : increment_download_count_select(p)

SpecIncrement == Init /\ [][NextIncrement]_vars

\* the calls on book b whose UPDATE statement has run
Incremented(b) == {p \in 1..NumDownloads : dl[p].book_id = b /\ dl[p].pc \in {"select", "done"}}

\* C2: under every interleaving of the steps of the concurrent
\* increment_download_count calls, the download_count of every book is its
\* starting value 0 plus the number of calls on it whose UPDATE has run: no
\* increment is lost, and N finished calls leave it exactly N higher.
C2_NoLostIncrement ==
    \A b \in DOMAIN Books : Books[b].download_count = Cardinality(Incremented(b))

\* all the calls ran on one book, overlapping (a later caller saw the count
\* before an earlier caller's UPDATE), and all have returned
C2_Witness ==
    \E b \in DOMAIN Books :
        /\ \A p \in 1..NumDownloads : dl[p].pc = "done" /\ dl[p].book_id = b
        /\ \A p \in 1..NumDownloads : dl[p].seen = 0
        /\ Books[b].download_count = NumDownloads


(* ----------------------- the store, categories ----------------------- *)

Live(table) == {id \in DOMAIN table : ~table[id].is_deleted}

\* BookDatabase.get_main_categories(): the live rows WHERE parent_id IS NULL
get_main_categories(table) == {id \in Live(table) : table[id].parent_id = NULL}

\* BookDatabase.get_subcategories(parent_id): the live rows WHERE parent_id = ?
get_subcategories(table, parent_id) ==
    {id \in Live(table) : table[id].parent_id = parent_id}

\* the live rows WHERE name = ? AND parent_id = ? (parent_id IS NULL for None)
RowsByName(table, name, parent_id) ==
    {id \in Live(table) : table[id].name = name /\ table[id].parent_id = parent_id}

\* BookDatabase.get_category_by_name: fetchone() of these rows, or None
get_category_by_name(table, name, parent_id) ==
    IF RowsByName(table, name, parent_id) = {} THEN NoRow
    ELSE table[CHOOSE id \in RowsByName(table, name, parent_id) :
                   \A other \in RowsByName(table, name, parent_id) : id <= other]

\* the values of CURRENT_TIMESTAMP
Times == 1..MaxTime

\* BookDatabase.delete_category(id, hard_delete), the statement on Categories:
\* DELETE FROM Categories WHERE id = ?, or
\* UPDATE Categories SET is_deleted = 1, deleted_at = CURRENT_TIMESTAMP
\* WHERE id = ?  -- this row and no other
delete_category(table, category_id, hard_delete, now) ==
    IF category_id \notin DOMAIN table THEN table
    ELSE IF hard_delete THEN Remove(table, {category_id})
    ELSE [table EXCEPT ![category_id].is_deleted = TRUE,
                       ![category_id].deleted_at = now]

\* a restore that flips the mark of the row instead of clearing it
RestoreFlips(table, category_id) ==
    IF category_id \in DOMAIN table
    THEN [table EXCEPT ![category_id].is_deleted = ~@, ![category_id].deleted_at = NULL]
    ELSE table

\* BookDatabase.restore_category:
\* UPDATE Categories SET is_deleted = 0, deleted_at = NULL WHERE id = ?
BookDatabase_restore_category(table, category_id) ==
    IF category_id \in DOMAIN table
    THEN [table EXCEPT ![category_id].is_deleted = FALSE,
                       ![category_id].deleted_at = NULL]
    ELSE table

\* BookDatabase.delete_book(id, hard_delete): DELETE FROM Books WHERE id = ?, or
\* UPDATE Books SET is_deleted = 1, deleted_at = CURRENT_TIMESTAMP WHERE id = ?
delete_book(table, book_id, hard_delete, now) ==
    IF book_id \notin DOMAIN table THEN table
    ELSE IF hard_delete THEN Remove(table, {book_id})
    ELSE [table EXCEPT ![book_id].is_deleted = TRUE, ![book_id].deleted_at = now]

\* BookDatabase.restore_book:
\* UPDATE Books SET is_deleted = 0, deleted_at = NULL WHERE id = ?
BookDatabase_restore_book(table, book_id) ==
    IF book_id \in DOMAIN table
    THEN [table EXCEPT ![book_id].is_deleted = FALSE, ![book_id].deleted_at = NULL]
    ELSE table

\* The connection is opened by Database (utils/db_api/database.py); the
\* catalog design has the store enforce its foreign keys.
ForeignKeysEnforced == TRUE

\* the rows of Categories that go with the removed ones:
\* FOREIGN KEY (parent_id) REFERENCES Categories(id) ON DELETE CASCADE,
\* applied until no row refers to a removed one
RECURSIVE Cascaded(_, _)
Cascaded(categories, removed) ==
    LET more == {c \in DOMAIN categories : categories[c].parent_id \in removed}
    IN  IF more \subseteq removed THEN removed
        ELSE Cascaded(categories, removed \cup more)

\* a schema whose foreign keys name no action: the other rows stay
NoCascade(categories, books, removed) == [categories |-> categories, books |-> books]

\* the referential actions of the schema after a DELETE took the rows
\* `removed` out of Categories:
\* FOREIGN KEY (category_id) REFERENCES Categories(id) ON DELETE CASCADE on
\* Books, and the one on parent_id
OnDeleteCascade(categories, books, removed) ==
    IF ForeignKeysEnforced /\ removed # {}
    THEN LET gone == Cascaded(categories, removed)
         IN  [categories |-> Remove(categories, gone),
              books |-> Remove(books, {b \in DOMAIN books : books[b].category_id \in gone})]
    ELSE [categories |-> categories, books |-> books]

\* BookDatabase.update_category(id, name = n): None changes nothing
update_category_name(table, category_id, new_name) ==
    IF new_name = NoText THEN table
    ELSE IF category_id \in DOMAIN table
         THEN [table EXCEPT ![category_id].name = new_name]
         ELSE table

(* ------------------------- texts of the buttons ----------------------- *)
\* An emoji is one character; it is written here by a name between
\* parentheses, as the module is kept in ASCII.

\* f"{AdminEmoji.CANCEL} Bekor"
CANCEL == <<"(no-entry)", " ", "B", "e", "k", "o", "r">>
\* f"{AdminEmoji.SKIP} O'tkazish"
SKIP == <<"(fast-forward)", " ", "O", "'", "t", "k", "a", "z", "i", "s", "h">>
\* f"{AdminEmoji.DONE} Tugatish"
DONE == <<"(check)", " ", "T", "u", "g", "a", "t", "i", "s", "h">>
\* f"{AdminEmoji.ADD} Kategoriya"
ADD_CATEGORY == <<"(plus)", " ", "K", "a", "t", "e", "g", "o", "r", "i", "y", "a">>

is_admin(op) == op \in Operators

\* one storage slot shared by all operators is reset
FinishEveryone(op) ==
    /\ fsm' = [o \in Operators |-> none]
    /\ data' = [o \in Operators |-> EmptyData]

\* state.finish(): the state and the data of this operator are reset
finish(op) ==
    /\ fsm' = [fsm EXCEPT ![op] = none]
    /\ data' = [data EXCEPT ![op] = EmptyData]

storeVars == <<Categories, nextCategoryId, Books, nextBookId, pathCall, dl>>

(* ---------------- AdminCategoryState: creating a category ------------- *)

AdminCategoryState ==
    [select_parent |-> "AdminCategoryState:select_parent",
     enter_name |-> "AdminCategoryState:enter_name",
     enter_description |-> "AdminCategoryState:enter_description"]

add_category_start(op, text) ==
    /\ fsm[op] = none
    /\ text = ADD_CATEGORY
    /\ is_admin(op)
    /\ last' = TextMessage(op, text)
    /\ IF get_main_categories(Categories) # {}
       THEN fsm' = [fsm EXCEPT ![op] = AdminCategoryState.select_parent] /\ data' = data
       ELSE /\ data' = [data EXCEPT ![op].parent_id = NULL]
            /\ fsm' = [fsm EXCEPT ![op] = AdminCategoryState.enter_name]
    /\ UNCHANGED <<storeVars, registered, legacy_first, searchVars>>

\* callback "adm_parent:<id>"; 0 is the button of a main category.  The id is
\* stored whether get_category_by_id finds it or not.
category_parent_selected(op, parent_id) ==
    /\ fsm[op] = AdminCategoryState.select_parent
    /\ last' = CallbackQuery(op, "adm_parent", parent_id)
    /\ data' = [data EXCEPT ![op].parent_id = IF parent_id = 0 THEN NULL ELSE parent_id]
    /\ fsm' = [fsm EXCEPT ![op] = AdminCategoryState.enter_name]
    /\ UNCHANGED <<storeVars, registered, legacy_first, searchVars>>

category_name_entered(op, text) ==
    /\ fsm[op] = AdminCategoryState.enter_name
    /\ last' = TextMessage(op, text)
    /\ IF text = CANCEL THEN finish(op)
       ELSE LET name == strip(text) IN
            IF Len(name) < 2 \/ Len(name) > 100 THEN UNCHANGED <<fsm, data>>
            ELSE IF get_category_by_name(Categories, name, data[op].parent_id) # NoRow
                 THEN UNCHANGED <<fsm, data>>
                 ELSE /\ data' = [data EXCEPT ![op].cat_name = name]
                      /\ fsm' = [fsm EXCEPT ![op] = AdminCategoryState.enter_description]
    /\ UNCHANGED <<storeVars, registered, legacy_first, searchVars>>

\* the reply (get_category_path of the new row) reads the store only
category_desc_entered(op, text) ==
    /\ fsm[op] = AdminCategoryState.enter_description
    /\ last' = TextMessage(op, text)
    /\ finish(op)
    /\ IF text = CANCEL THEN UNCHANGED <<Categories, nextCategoryId>>
       ELSE LET description == IF text = SKIP THEN NoText
                               ELSE Truncate(strip(text), 500) IN
            /\ nextCategoryId <= MaxCats
            /\ Categories' = add_category(Categories, nextCategoryId, data[op].cat_name,
                                          op, description, data[op].parent_id)
            /\ nextCategoryId' = nextCategoryId + 1
    /\ UNCHANGED <<Books, nextBookId, pathCall, dl, registered, legacy_first, searchVars>>

(* ------------------- the states of the upload dialogues --------------- *)

\* AdminBookState (admin_book_handlers.py): one book
AdminBookState ==
    [select_category |-> "AdminBookState:select_category",
     select_subcategory |-> "AdminBookState:select_subcategory",
     upload_file |-> "AdminBookState:upload_file",
     enter_title |-> "AdminBookState:enter_title",
     enter_author |-> "AdminBookState:enter_author",
     enter_narrator |-> "AdminBookState:enter_narrator",
     enter_description |-> "AdminBookState:enter_description"]

\* AdminBulkState (admin_book_handlers.py): files with captions
AdminBulkState ==
    [select_category |-> "AdminBulkState:select_category",
     select_subcategory |-> "AdminBulkState:select_subcategory",
     uploading |-> "AdminBulkState:uploading"]

\* BatchUploadState (batch_upload_handlers.py): guided batch
BatchUploadState ==
    [waiting_for_category |-> "BatchUploadState:waiting_for_category",
     collecting_books |-> "BatchUploadState:collecting_books",
     waiting_for_title |-> "BatchUploadState:waiting_for_title",
     waiting_for_author |-> "BatchUploadState:waiting_for_author",
     waiting_for_narrator |-> "BatchUploadState:waiting_for_narrator",
     waiting_for_description |-> "BatchUploadState:waiting_for_description"]

\* BookState (adminlar.py): one PDF
BookState ==
    [waiting_for_category |-> "BookState:waiting_for_category",
     waiting_for_pdf |-> "BookState:waiting_for_pdf",
     waiting_for_title |-> "BookState:waiting_for_title",
     waiting_for_author |-> "BookState:waiting_for_author",
     waiting_for_description |-> "BookState:waiting_for_description"]

\* the states of admin_book_handlers.py whose own handler, registered before
\* cancel_any, takes every text message
AdminTextStates ==
    {AdminCategoryState.enter_name, AdminCategoryState.enter_description,
     AdminBookState.enter_title, AdminBookState.enter_author, AdminBookState.enter_narrator, AdminBookState.enter_description}

\* the states of admin_book_handlers.py that wait for a button or a file
AdminOtherStates ==
    {AdminCategoryState.select_parent, AdminBookState.select_category, AdminBookState.select_subcategory, AdminBookState.upload_file,
     AdminBulkState.select_category, AdminBulkState.select_subcategory, AdminBulkState.uploading}

(* ------------- admin_book_handlers.py: cancel, delete, restore -------- *)

\* Text(equals = CANCEL), state = "*": reached when no handler above it matched
cancel_any(op, text) ==
    /\ text = CANCEL
    /\ fsm[op] \in AdminOtherStates \cup {none}
    /\ last' = TextMessage(op, text)
    /\ IF fsm[op] # none THEN finish(op) ELSE UNCHANGED <<fsm, data>>
    /\ UNCHANGED <<storeVars, registered, legacy_first, searchVars>>

\* callback "adm_yes:<action>:<id>": del_cat and del_book soft-delete the row,
\* hard_del_cat and hard_del_book remove it; a missing row makes the reply
\* fail after the statement, inside the try
ConfirmActions == {"del_cat", "del_book", "hard_del_book", "hard_del_cat"}

confirm_yes(op, action, item_id) ==
    /\ fsm[op] = none
    /\ action \in ConfirmActions
    /\ item_id # 0
    /\ last' = CallbackQuery(op, "adm_yes:" \o action, item_id)
    /\ \E now \in Times :
          CASE action = "del_cat" ->
                  /\ Categories' = delete_category(Categories, item_id, FALSE, now)
                  /\ UNCHANGED Books
            [] action = "del_book" ->
                  /\ Books' = delete_book(Books, item_id, FALSE, now)
                  /\ UNCHANGED Categories
            [] action = "hard_del_book" ->
                  /\ Books' = delete_book(Books, item_id, TRUE, now)
                  /\ UNCHANGED Categories
            [] action = "hard_del_cat" ->
                  LET deleted == delete_category(Categories, item_id, TRUE, now)
                      after == OnDeleteCascade(deleted, Books,
                                               DOMAIN Categories \ DOMAIN deleted)
                  IN  /\ Categories' = after.categories
                      /\ Books' = after.books
    /\ UNCHANGED <<nextCategoryId, nextBookId, pathCall, dl,
                   fsm, data, registered, legacy_first, searchVars>>

\* callback "adm_restore_book:<id>"
restore_book(op, book_id) ==
    /\ fsm[op] = none
    /\ last' = CallbackQuery(op, "adm_restore_book", book_id)
    /\ Books' = BookDatabase_restore_book(Books, book_id)
    /\ UNCHANGED <<Categories, nextCategoryId, nextBookId, pathCall, dl,
                   fsm, data, registered, legacy_first, searchVars>>

\* callback "adm_restore_cat:<id>"
restore_category(op, cat_id) ==
    /\ fsm[op] = none
    /\ last' = CallbackQuery(op, "adm_restore_cat", cat_id)
    /\ Categories' = BookDatabase_restore_category(Categories, cat_id)
    /\ UNCHANGED <<nextCategoryId, Books, nextBookId, pathCall, dl,
                   fsm, data, registered, legacy_first, searchVars>>

\* the store's update_category(id, name = n), which no handler calls
RenameCategory(category_id, new_name) ==
    /\ last' = Update(NULL, "store", new_name, "", "update_category", category_id)
    /\ Categories' = update_category_name(Categories, category_id, new_name)
    /\ UNCHANGED <<nextCategoryId, Books, nextBookId, pathCall, dl,
                   fsm, data, registered, legacy_first, searchVars>>

(* -------------------- the category specifications --------------------- *)

Lit == <<"L", "i", "t">>
Po == <<"P", "o">>
Sci == <<"S", "c", "i">>

\* what an operator types for a name: two names, one of them with blanks
\* around it, and a text that is too short once stripped
NameTexts == {Lit, <<" ", "P", "o", " ">>, <<" ", "x", " ">>, CANCEL}

DescriptionTexts == {SKIP, CANCEL, <<"d", " ">>}

\* the creation dialogue of operator op
CreateCategory(op) ==
    \/ add_category_start(op, ADD_CATEGORY)
    \/ \E parent_id \in {0} \cup {c \in DOMAIN Categories : Categories[c].parent_id = NULL} :
          category_parent_selected(op, parent_id)
    \/ \E text \in NameTexts : category_name_entered(op, text)
    \/ \E text \in DescriptionTexts : category_desc_entered(op, text)
    \/ cancel_any(op, CANCEL)

\* one operator creates, soft-deletes and restores categories; the store renames
NextCategory ==
    \/ CreateCategory(1)
    \/ \E item_id \in 1..MaxCats : confirm_yes(1, "del_cat", item_id)
    \/ \E cat_id \in 1..MaxCats : restore_category(1, cat_id)
    \/ \E category_id \in 1..MaxCats, new_name \in {Sci, NoText} :
          RenameCategory(category_id, new_name)

SpecCategory == Init /\ [][NextCategory]_vars

\* two operators run the creation dialogue, and nothing else happens
NextRace == \E op \in Operators : CreateCategory(op)

SpecRace == Init /\ [][NextRace]_vars

SameSiblingName(a, b) ==
    /\ a # b
    /\ Categories[a].name = Categories[b].name
    /\ Categories[a].parent_id = Categories[b].parent_id

\* C4: in every state reached by creating, renaming, soft-deleting and
\* restoring categories, no two categories that are not deleted have the same
\* parent_id and the same name.
C4_SiblingNamesUnique ==
    \A a, b \in Live(Categories) : ~SameSiblingName(a, b)

\* restoring a category has just put it next to a live sibling of its name,
\* both created under that name by the dialogue
C4_RestoredBesideNamesake ==
    /\ last.cb = "adm_restore_cat"
    /\ \E a, b \in Live(Categories) :
          /\ SameSiblingName(a, b)
          /\ a = last.arg
          /\ Categories[a].name \in {Lit, Po}

\* the operators that created a live category called name under parent_id
Creators(name, parent_id) ==
    {Categories[c].created_by : c \in RowsByName(Categories, name, parent_id)}

\* C5: when two operators run the creation dialogue with the same name under
\* the same parent, however their name checks and inserts interleave, at most
\* one of them has created a live category of that name under that parent.
C5_AtMostOneCreator ==
    \A name \in {Lit, Po}, parent_id \in {NULL} \cup DOMAIN Categories :
        Cardinality(Creators(name, parent_id)) <= 1

\* both operators passed the name check before either inserted, and both inserted
C5_BothCreated ==
    /\ \A op \in Operators : fsm[op] = none
    /\ \E a, b \in Live(Categories) :
          /\ SameSiblingName(a, b)
          /\ Categories[a].created_by = 1
          /\ Categories[b].created_by = 2

(* -------------------------- the store, books -------------------------- *)

\* the rows WHERE Books.file_id = ?, deleted or not
RowsByFile(table, file_id) == {id \in DOMAIN table : table[id].file_id = file_id}

\* BookDatabase.get_book_by_file_id: fetchone() of these rows, or None
get_book_by_file_id(table, file_id) ==
    IF RowsByFile(table, file_id) = {} THEN NoRow
    ELSE table[CHOOSE id \in RowsByFile(table, file_id) :
                   \A other \in RowsByFile(table, file_id) : id <= other]

\* BookDatabase.get_all_categories(): the live rows
get_all_categories(table) == Live(table)

\* a record breaks a NOT NULL column of Books
ViolatesNotNull(book) ==
    \/ book.title = NoText
    \/ book.file_id = ""
    \/ book.category_id = NULL
    \/ book.uploaded_by = NULL

\* one try around the whole loop: the first failing INSERT ends the call and
\* the records after it count as neither added nor failed
AbortOnFirstError(table, next_id, books_list) ==
    LET Bad == {i \in 1..Len(books_list) : ViolatesNotNull(books_list[i])}
        n == IF Bad = {} THEN Len(books_list)
             ELSE (CHOOSE i \in Bad : \A j \in Bad : i <= j) - 1
    IN  [table |-> [id \in DOMAIN table \cup (next_id..(next_id + n - 1)) |->
                       IF id \in DOMAIN table THEN table[id]
                       ELSE LET book == books_list[id - next_id + 1] IN
                            BookRow(book.title, book.file_id, book.file_type,
                                    book.category_id, book.author, book.narrator,
                                    book.description, book.uploaded_by)],
         next_id |-> next_id + n,
         added |-> n,
         errors |-> IF Bad = {} THEN 0 ELSE 1]

\* BookDatabase.add_books_bulk: one INSERT per record, each in its own try;
\* gives the table, the AUTOINCREMENT counter and the pair (added, errors)
RECURSIVE add_books_bulk(_, _, _)
add_books_bulk(table, next_id, books_list) ==
    IF books_list = <<>>
    THEN [table |-> table, next_id |-> next_id, added |-> 0, errors |-> 0]
    ELSE LET book == Head(books_list) IN
         IF ViolatesNotNull(book)
         THEN [add_books_bulk(table, next_id, Tail(books_list)) EXCEPT !.errors = @ + 1]
         ELSE [add_books_bulk(
                   Insert(table, next_id,
                          BookRow(book.title, book.file_id, book.file_type,
                                  book.category_id, book.author, book.narrator,
                                  book.description, book.uploaded_by)),
                   next_id + 1, Tail(books_list))
               EXCEPT !.added = @ + 1]

(* --------------------------- reading captions ------------------------- *)

\* str.lower() on the letters A to Z
lower(s) ==
    LET UpperCase == <<"A", "B", "C", "D", "E", "F", "G", "H", "I", "J", "K", "L", "M",
                       "N", "O", "P", "Q", "R", "S", "T", "U", "V", "W", "X", "Y", "Z">>
        LowerCase == <<"a", "b", "c", "d", "e", "f", "g", "h", "i", "j", "k", "l", "m",
                       "n", "o", "p", "q", "r", "s", "t", "u", "v", "w", "x", "y", "z">>
        LowerChar(c) ==
            IF \E i \in 1..Len(UpperCase) : UpperCase[i] = c
            THEN LowerCase[CHOOSE i \in 1..Len(UpperCase) : UpperCase[i] = c]
            ELSE c
    IN  [i \in 1..Len(s) |-> LowerChar(s[i])]

Contains(s, c) == \E i \in 1..Len(s) : s[i] = c

\* str.split(sep) for a separator of one character
RECURSIVE split(_, _)
split(s, sep) ==
    IF ~Contains(s, sep) THEN <<s>>
    ELSE LET i == CHOOSE k \in 1..Len(s) : s[k] = sep /\ \A j \in 1..(k - 1) : s[j] # sep
         IN  <<SubSeq(s, 1, i - 1)>> \o split(SubSeq(s, i + 1, Len(s)), sep)

\* the file name extensions parse_caption removes
Extensions ==
    {<<"p", "d", "f">>, <<"m", "p", "3">>, <<"m", "4", "a">>, <<"m", "4", "b">>,
     <<"o", "g", "g">>, <<"w", "a", "v">>, <<"f", "l", "a", "c">>}

EndsWithExtension(s, ext) ==
    /\ Len(s) >= Len(ext) + 1
    /\ s[Len(s) - Len(ext)] = "."
    /\ lower(SubSeq(s, Len(s) - Len(ext) + 1, Len(s))) = ext

\* re.sub(r'\.(pdf|mp3|m4a|m4b|ogg|wav|flac)$', '', file_name, flags=re.IGNORECASE).strip()
StripExtension(file_name) ==
    IF \E ext \in Extensions : EndsWithExtension(file_name, ext)
    THEN LET ext == CHOOSE e \in Extensions : EndsWithExtension(file_name, e)
         IN  strip(SubSeq(file_name, 1, Len(file_name) - Len(ext) - 1))
    ELSE strip(file_name)

\* Python truth of an optional text: None and '' are false
Truthy(s) == s # NoText /\ s # <<>>

TitleKeys == {<<"k", "i", "t", "o", "b">>, <<"n", "o", "m">>, <<"t", "i", "t", "l", "e">>}
AuthorKeys ==
    {<<"m", "u", "a", "l", "l", "i", "f">>, <<"a", "u", "t", "h", "o", "r">>,
     <<"y", "o", "z", "u", "v", "c", "h", "i">>}
NarratorKeys ==
    {<<"h", "i", "k", "o", "y", "a", "c", "h", "i">>,
     <<"n", "a", "r", "r", "a", "t", "o", "r">>}
DescriptionKeys ==
    {<<"t", "a", "v", "s", "i", "f">>,
     <<"d", "e", "s", "c", "r", "i", "p", "t", "i", "o", "n">>}

\* the line starts with this key, blanks and a colon
StartsWithKey(line, key) ==
    /\ Len(line) > Len(key)
    /\ lower(SubSeq(line, 1, Len(key))) = key
    /\ LET rest == lstrip(SubSeq(line, Len(key) + 1, Len(line)))
       IN  rest # <<>> /\ Head(rest) = ":"

\* re.match(r'^(k1|k2|..)\s*:', line, re.IGNORECASE)
MatchesKeys(line, keys) == \E key \in keys : StartsWithKey(line, key)

\* re.sub(r'^(k1|k2|..)\s*:\s*', '', line, flags=re.IGNORECASE)
AfterKey(line, keys) ==
    LET key == CHOOSE k \in keys : StartsWithKey(line, k)
        rest == lstrip(SubSeq(line, Len(key) + 1, Len(line)))
    IN  lstrip(Tail(rest))

NoCaption == [title |-> NoText, author |-> NoText, narrator |-> NoText, description |-> NoText]

\* the loop of parse_caption over the lines of a caption
RECURSIVE ParseLines(_, _)
ParseLines(lines, result) ==
    IF lines = <<>> THEN result
    ELSE LET line == strip(Head(lines)) IN
         ParseLines(Tail(lines),
             IF line = <<>> THEN result
             ELSE IF MatchesKeys(line, TitleKeys)
                  THEN [result EXCEPT !.title = AfterKey(line, TitleKeys)]
             ELSE IF MatchesKeys(line, AuthorKeys)
                  THEN [result EXCEPT !.author = AfterKey(line, AuthorKeys)]
             ELSE IF MatchesKeys(line, NarratorKeys)
                  THEN [result EXCEPT !.narrator = AfterKey(line, NarratorKeys)]
             ELSE IF MatchesKeys(line, DescriptionKeys)
                  THEN [result EXCEPT !.description = AfterKey(line, DescriptionKeys)]
             ELSE IF ~Truthy(result.title) THEN [result EXCEPT !.title = line]
             ELSE result)

\* parts = [p.strip() for p in caption.split('|')]: title | author | narrator
ParsePipes(caption) ==
    LET parts == split(caption, "|")
        part(i) == strip(parts[i])
    IN  [NoCaption EXCEPT
            !.title = IF part(1) # <<>> THEN part(1) ELSE NoText,
            !.author = IF Len(parts) >= 2 /\ part(2) # <<>> THEN part(2) ELSE NoText,
            !.narrator = IF Len(parts) >= 3 /\ part(3) # <<>> THEN part(3) ELSE NoText]

\* parse_caption(caption, file_name); "\n" is the newline character
parse_caption(caption, file_name) ==
    IF ~Truthy(caption)
    THEN IF Truthy(file_name)
         THEN [NoCaption EXCEPT !.title = StripExtension(file_name)]
         ELSE NoCaption
    ELSE LET stripped == strip(caption)
             result == IF Contains(stripped, "\n")
                       THEN ParseLines(split(stripped, "\n"), NoCaption)
                       ELSE IF Contains(stripped, "|") THEN ParsePipes(stripped)
                       ELSE [NoCaption EXCEPT !.title = stripped]
         IN  IF ~Truthy(result.title) /\ Truthy(file_name)
             THEN [result EXCEPT !.title = StripExtension(file_name)]
             ELSE result

(* ------------------------ the files operators send -------------------- *)

\* "f1" is a document of type application/pdf, "f2" an audio message, "f3" a
\* document of another type
Files == {"f1", "f2", "f3"}

\* document.file_name / audio.file_name
FileName(file_id) ==
    IF file_id = "f1" THEN <<"a", ".", "p", "d", "f">>
    ELSE IF file_id = "f2" THEN <<"b", ".", "m", "p", "3">>
    ELSE <<"c", ".", "z", "i", "p">>

\* message.audio.title: the audio message carries none
AudioTitle(file_id) == NoText

\* extract_file_data(message): file_id, file_type and file_name, or None
extract_file_data(file_id) ==
    IF FileKind(file_id) \in {PDF, AUDIO}
    THEN [file_id |-> file_id, file_type |-> FileKind(file_id),
          file_name |-> FileName(file_id)]
    ELSE NoFile

(* --------------- AdminBookState: AdminBulkState.uploading one book ------------------- *)

\* f"{AdminEmoji.UPLOAD} Kitob yuklash"
UPLOAD_BOOK == <<"(outbox)", " ", "K", "i", "t", "o", "b", " ", "y", "u", "k", "l", "a", "s", "h">>

add_book_start(op, text) ==
    /\ fsm[op] = none
    /\ text = UPLOAD_BOOK
    /\ is_admin(op)
    /\ last' = TextMessage(op, text)
    /\ IF get_main_categories(Categories) = {} THEN UNCHANGED fsm
       ELSE fsm' = [fsm EXCEPT ![op] = AdminBookState.select_category]
    /\ UNCHANGED <<storeVars, data, registered, legacy_first, searchVars>>

\* callback "adm_add_cat:<id>"
add_book_category(op, cat_id) ==
    /\ fsm[op] = AdminBookState.select_category
    /\ last' = CallbackQuery(op, "adm_add_cat", cat_id)
    /\ IF get_category_by_id(Categories, cat_id) = NoRow THEN UNCHANGED <<fsm, data>>
       ELSE IF get_subcategories(Categories, cat_id) # {}
            THEN /\ data' = [data EXCEPT ![op].parent_cat_id = cat_id]
                 /\ fsm' = [fsm EXCEPT ![op] = AdminBookState.select_subcategory]
            ELSE /\ data' = [data EXCEPT ![op].category_id = cat_id]
                 /\ fsm' = [fsm EXCEPT ![op] = AdminBookState.upload_file]
    /\ UNCHANGED <<storeVars, registered, legacy_first, searchVars>>

\* callback "adm_add_sub:<id>"
add_book_subcategory(op, sub_id) ==
    /\ fsm[op] = AdminBookState.select_subcategory
    /\ last' = CallbackQuery(op, "adm_add_sub", sub_id)
    /\ IF get_category_by_id(Categories, sub_id) = NoRow THEN UNCHANGED <<fsm, data>>
       ELSE /\ data' = [data EXCEPT ![op].category_id = sub_id]
            /\ fsm' = [fsm EXCEPT ![op] = AdminBookState.upload_file]
    /\ UNCHANGED <<storeVars, registered, legacy_first, searchVars>>

\* callback "adm_add_sub_direct:<id>"
add_book_direct_category(op, cat_id) ==
    /\ fsm[op] = AdminBookState.select_subcategory
    /\ last' = CallbackQuery(op, "adm_add_sub_direct", cat_id)
    /\ IF get_category_by_id(Categories, cat_id) = NoRow THEN UNCHANGED <<fsm, data>>
       ELSE /\ data' = [data EXCEPT ![op].category_id = cat_id]
            /\ fsm' = [fsm EXCEPT ![op] = AdminBookState.upload_file]
    /\ UNCHANGED <<storeVars, registered, legacy_first, searchVars>>

add_book_file(op, file_id) ==
    /\ fsm[op] = AdminBookState.upload_file
    /\ last' = FileMessage(op, file_id, NoText)
    /\ LET file_data == extract_file_data(file_id) IN
       IF file_data = NoFile THEN UNCHANGED <<fsm, data>>
       ELSE IF get_book_by_file_id(Books, file_data.file_id) # NoRow
            THEN UNCHANGED <<fsm, data>>
            ELSE /\ data' = [data EXCEPT ![op].file_id = file_data.file_id,
                                         ![op].file_type = file_data.file_type,
                                         ![op].file_name = file_data.file_name]
                 /\ fsm' = [fsm EXCEPT ![op] = AdminBookState.enter_title]
    /\ UNCHANGED <<storeVars, registered, legacy_first, searchVars>>

add_book_title(op, text) ==
    /\ fsm[op] = AdminBookState.enter_title
    /\ last' = TextMessage(op, text)
    /\ IF text = CANCEL THEN finish(op)
       ELSE LET title == strip(text) IN
            IF Len(title) < 2 \/ Len(title) > 255 THEN UNCHANGED <<fsm, data>>
            ELSE /\ data' = [data EXCEPT ![op].title = title]
                 /\ fsm' = [fsm EXCEPT ![op] = AdminBookState.enter_author]
    /\ UNCHANGED <<storeVars, registered, legacy_first, searchVars>>

\* every file sent for a narrator prompt
AlwaysNarrator(file_type) == TRUE

\* if data['file_type'] == FileType.AUDIO
AsksNarrator(file_type) == file_type = AUDIO

add_book_author(op, text) ==
    /\ fsm[op] = AdminBookState.enter_author
    /\ last' = TextMessage(op, text)
    /\ IF text = CANCEL THEN finish(op)
       ELSE /\ data' = [data EXCEPT ![op].author =
                           IF text = SKIP THEN NoText ELSE Truncate(strip(text), 100)]
            /\ IF AsksNarrator(data[op].file_type)
               THEN fsm' = [fsm EXCEPT ![op] = AdminBookState.enter_narrator]
               ELSE fsm' = [fsm EXCEPT ![op] = AdminBookState.enter_description]
    /\ UNCHANGED <<storeVars, registered, legacy_first, searchVars>>

add_book_narrator(op, text) ==
    /\ fsm[op] = AdminBookState.enter_narrator
    /\ last' = TextMessage(op, text)
    /\ IF text = CANCEL THEN finish(op)
       ELSE /\ data' = [data EXCEPT ![op].narrator =
                           IF text = SKIP THEN NoText ELSE Truncate(strip(text), 100)]
            /\ fsm' = [fsm EXCEPT ![op] = AdminBookState.enter_description]
    /\ UNCHANGED <<storeVars, registered, legacy_first, searchVars>>

add_book_description(op, text) ==
    /\ fsm[op] = AdminBookState.enter_description
    /\ last' = TextMessage(op, text)
    /\ finish(op)
    /\ IF text = CANCEL THEN UNCHANGED <<Books, nextBookId>>
       ELSE LET description == IF text = SKIP THEN NoText
                               ELSE Truncate(strip(text), 1000) IN
            /\ nextBookId <= MaxBooks
            /\ Books' = add_book(Books, nextBookId, data[op].title, data[op].file_id,
                                 data[op].file_type, data[op].category_id,
                                 data[op].author, data[op].narrator, description, op)
            /\ nextBookId' = nextBookId + 1
    /\ UNCHANGED <<Categories, nextCategoryId, pathCall, dl, registered, legacy_first, searchVars>>

(* -------------------- texts of the other buttons ---------------------- *)

\* f"{AdminEmoji.BULK} Bulk yuklash"
BULK_UPLOAD ==
    <<"(package)", " ", "B", "u", "l", "k", " ", "y", "u", "k", "l", "a", "s", "h">>

\* "<inbox> Ko'plab kitob qo'shish", the button of start_batch_upload
BATCH_UPLOAD ==
    <<"(inbox)", " ", "K", "o", "'", "p", "l", "a", "b", " ", "k", "i", "t", "o",
      "b", " ", "q", "o", "'", "s", "h", "i", "s", "h">>

\* "<plus> Kitob qo'shish", the button of start_add_book
ADD_BOOK ==
    <<"(plus)", " ", "K", "i", "t", "o", "b", " ", "q", "o", "'", "s", "h", "i",
      "s", "h">>

\* "<cross> Bekor qilish"
CANCEL_OLD ==
    <<"(cross)", " ", "B", "e", "k", "o", "r", " ", "q", "i", "l", "i", "s", "h">>

\* "<next-track> O'tkazib yuborish"
SKIP_OLD ==
    <<"(next-track)", " ", "O", "'", "t", "k", "a", "z", "i", "b", " ", "y", "u",
      "b", "o", "r", "i", "s", "h">>

\* "<check> Yakunlash va saqlash"
FINISH_AND_SAVE ==
    <<"(check)", " ", "Y", "a", "k", "u", "n", "l", "a", "s", "h", " ", "v", "a",
      " ", "s", "a", "q", "l", "a", "s", "h">>

\* "<clipboard> Qo'shilganlarni ko'rish"
SHOW_ADDED ==
    <<"(clipboard)", " ", "Q", "o", "'", "s", "h", "i", "l", "g", "a", "n", "l",
      "a", "r", "n", "i", " ", "k", "o", "'", "r", "i", "s", "h">>

\* "<check> Yakunlash"
FINISH ==
    <<"(check)", " ", "Y", "a", "k", "u", "n", "l", "a", "s", "h">>

\* "skip", one of the two texts the batch dialogue reads as a skip
SKIP_WORD ==
    <<"s", "k", "i", "p">>

\* "o'tkazib yuborish", the other
SKIP_PHRASE ==
    <<"o", "'", "t", "k", "a", "z", "i", "b", " ", "y", "u", "b", "o", "r", "i",
      "s", "h">>

(* ------------- AdminBulkState: files with captions, queued ------------ *)

bulk_upload_start(op, text) ==
    /\ fsm[op] = none
    /\ text = BULK_UPLOAD
    /\ is_admin(op)
    /\ last' = TextMessage(op, text)
    /\ IF get_main_categories(Categories) = {} THEN UNCHANGED fsm
       ELSE fsm' = [fsm EXCEPT ![op] = AdminBulkState.select_category]
    /\ UNCHANGED <<storeVars, data, registered, legacy_first, searchVars>>

\* update_data(category_id = .., books_queue = [], errors = []) and the AdminBulkState.uploading state
BulkCategoryChosen(op, cat_id) ==
    /\ data' = [data EXCEPT ![op].category_id = cat_id,
                            ![op].books_queue = <<>>,
                            ![op].errors = <<>>]
    /\ fsm' = [fsm EXCEPT ![op] = AdminBulkState.uploading]

\* callback "adm_bulk_cat:<id>"
bulk_category_selected(op, cat_id) ==
    /\ fsm[op] = AdminBulkState.select_category
    /\ last' = CallbackQuery(op, "adm_bulk_cat", cat_id)
    /\ IF get_category_by_id(Categories, cat_id) = NoRow THEN UNCHANGED <<fsm, data>>
       ELSE IF get_subcategories(Categories, cat_id) # {}
            THEN /\ data' = [data EXCEPT ![op].parent_cat_id = cat_id]
                 /\ fsm' = [fsm EXCEPT ![op] = AdminBulkState.select_subcategory]
            ELSE BulkCategoryChosen(op, cat_id)
    /\ UNCHANGED <<storeVars, registered, legacy_first, searchVars>>

\* callback "adm_bulk_sub:<id>"
bulk_subcategory_selected(op, sub_id) ==
    /\ fsm[op] = AdminBulkState.select_subcategory
    /\ last' = CallbackQuery(op, "adm_bulk_sub", sub_id)
    /\ IF get_category_by_id(Categories, sub_id) = NoRow THEN UNCHANGED <<fsm, data>>
       ELSE BulkCategoryChosen(op, sub_id)
    /\ UNCHANGED <<storeVars, registered, legacy_first, searchVars>>

\* callback "adm_bulk_sub_direct:<id>"
bulk_direct_category(op, cat_id) ==
    /\ fsm[op] = AdminBulkState.select_subcategory
    /\ last' = CallbackQuery(op, "adm_bulk_sub_direct", cat_id)
    /\ IF get_category_by_id(Categories, cat_id) = NoRow THEN UNCHANGED <<fsm, data>>
       ELSE BulkCategoryChosen(op, cat_id)
    /\ UNCHANGED <<storeVars, registered, legacy_first, searchVars>>

\* book_info of bulk_receive_file; duration and file_size are passed through
BookInfo(file_data, parsed) ==
    [file_id |-> file_data.file_id, file_type |-> file_data.file_type,
     title |-> IF Truthy(parsed.title) THEN parsed.title ELSE file_data.file_name,
     author |-> parsed.author, narrator |-> parsed.narrator,
     description |-> parsed.description]

\* the file is looked up among the rows of Books only; the queue is not searched
bulk_receive_file(op, file_id, caption) ==
    /\ fsm[op] = AdminBulkState.uploading
    /\ last' = FileMessage(op, file_id, caption)
    /\ LET file_data == extract_file_data(file_id)
           existing == get_book_by_file_id(Books, file_id)
           text == IF ~Truthy(caption) /\ FileKind(file_id) = AUDIO
                   THEN AudioTitle(file_id) ELSE caption
       IN  IF file_data = NoFile THEN UNCHANGED data
           ELSE IF existing # NoRow
                THEN /\ Len(data[op].errors) < MaxErrors
                     /\ data' = [data EXCEPT ![op].errors = Append(@, existing.title)]
                ELSE /\ Len(data[op].books_queue) < MaxQueue
                     /\ data' = [data EXCEPT ![op].books_queue =
                            Append(@, BookInfo(file_data,
                                               parse_caption(text, file_data.file_name)))]
    /\ UNCHANGED <<storeVars, fsm, registered, legacy_first, searchVars>>

\* the tuples bulk_finish hands to add_books_bulk
BooksList(queue, category_id, user_id) ==
    [i \in 1..Len(queue) |->
        [title |-> queue[i].title, file_id |-> queue[i].file_id,
         file_type |-> queue[i].file_type, category_id |-> category_id,
         author |-> queue[i].author, narrator |-> queue[i].narrator,
         description |-> queue[i].description, uploaded_by |-> user_id]]

bulk_finish(op, text) ==
    /\ fsm[op] = AdminBulkState.uploading
    /\ text = DONE
    /\ last' = TextMessage(op, text)
    /\ finish(op)
    /\ IF data[op].books_queue = <<>> THEN UNCHANGED <<Books, nextBookId>>
       ELSE LET saved == add_books_bulk(Books, nextBookId,
                             BooksList(data[op].books_queue, data[op].category_id, op))
            IN  /\ nextBookId + Len(data[op].books_queue) - 1 <= MaxBooks
                /\ Books' = saved.table
                /\ nextBookId' = saved.next_id
    /\ UNCHANGED <<Categories, nextCategoryId, pathCall, dl, registered, legacy_first, searchVars>>

(* ------------- BatchUploadState: the guided batch dialogue ------------ *)
\* batch_upload_handlers.py reads a row of the store by position
\* (main_cat[1]), as the rows of the store it was written for are read; a
\* missing row makes that read fail.

\* no privilege is checked
start_batch_upload(op, text) ==
    /\ fsm[op] = none
    /\ text = BATCH_UPLOAD
    /\ last' = TextMessage(op, text)
    /\ IF get_main_categories(Categories) = {} THEN UNCHANGED <<fsm, data>>
       ELSE /\ data' = [data EXCEPT ![op].books_batch = <<>>]
            /\ fsm' = [fsm EXCEPT ![op] = BatchUploadState.waiting_for_category]
    /\ UNCHANGED <<storeVars, registered, legacy_first, searchVars>>

\* callback "batch_main_cat:<id>"; with subcategories only a keyboard is shown
process_batch_category(op, main_cat_id) ==
    /\ fsm[op] = BatchUploadState.waiting_for_category
    /\ last' = CallbackQuery(op, "batch_main_cat", main_cat_id)
    /\ IF get_subcategories(Categories, main_cat_id) # {} THEN UNCHANGED <<fsm, data>>
       ELSE /\ data' = [data EXCEPT ![op].category_id = main_cat_id]
            /\ IF get_category_by_id(Categories, main_cat_id) = NoRow THEN UNCHANGED fsm
               ELSE fsm' = [fsm EXCEPT ![op] = BatchUploadState.collecting_books]
    /\ UNCHANGED <<storeVars, registered, legacy_first, searchVars>>

\* callback "batch_sub_cat:<id>"
process_batch_subcategory(op, sub_cat_id) ==
    /\ fsm[op] = BatchUploadState.waiting_for_category
    /\ last' = CallbackQuery(op, "batch_sub_cat", sub_cat_id)
    /\ data' = [data EXCEPT ![op].category_id = sub_cat_id]
    /\ fsm' = [fsm EXCEPT ![op] = BatchUploadState.collecting_books]
    /\ UNCHANGED <<storeVars, registered, legacy_first, searchVars>>

\* callback "batch_cat_selected:<id>"
process_batch_direct_category(op, cat_id) ==
    /\ fsm[op] = BatchUploadState.waiting_for_category
    /\ last' = CallbackQuery(op, "batch_cat_selected", cat_id)
    /\ data' = [data EXCEPT ![op].category_id = cat_id]
    /\ IF get_category_by_id(Categories, cat_id) = NoRow THEN UNCHANGED fsm
       ELSE fsm' = [fsm EXCEPT ![op] = BatchUploadState.collecting_books]
    /\ UNCHANGED <<storeVars, registered, legacy_first, searchVars>>

\* data['current_file'] as collect_book_file makes it; the keys the later
\* handlers add are missing
CurrentFile(file_id) ==
    [file_id |-> file_id, file_type |-> FileKind(file_id), file_name |-> FileName(file_id),
     title |-> NoText, author |-> NoText, narrator |-> NoText, description |-> NoText]

\* no row of Books and no entry of books_batch is compared with the file
collect_book_file(op, file_id) ==
    /\ fsm[op] = BatchUploadState.collecting_books
    /\ last' = FileMessage(op, file_id, NoText)
    /\ IF FileKind(file_id) \in {PDF, AUDIO}
       THEN /\ Len(data[op].books_batch) < MaxBatch
            /\ data' = [data EXCEPT ![op].current_file = CurrentFile(file_id)]
            /\ fsm' = [fsm EXCEPT ![op] = BatchUploadState.waiting_for_title]
       ELSE UNCHANGED <<fsm, data>>
    /\ UNCHANGED <<storeVars, registered, legacy_first, searchVars>>

\* the texts the field handlers pass to handle_batch_menu_actions
BatchMenuTexts == {FINISH_AND_SAVE, CANCEL_OLD, SHOW_ADDED}

\* the states of the batch dialogue whose own handler takes every text message
BatchTextStates ==
    {BatchUploadState.waiting_for_title, BatchUploadState.waiting_for_author, BatchUploadState.waiting_for_narrator,
     BatchUploadState.waiting_for_description}

\* the handler of a batch field state is the first one matching the message:
\* cancel_handler of adminlar.py (state "*") matches CANCEL_OLD before it when
\* adminlar.py was imported first
DispatchedToBatch(text) == ~(legacy_first /\ text = CANCEL_OLD)

\* text.lower() in ["o'tkazib yuborish", "skip"]
IsBatchSkip(text) == lower(text) \in {SKIP_PHRASE, SKIP_WORD}

\* handle_batch_menu_actions is defined inside collect_book_description: the
\* call from another handler raises NameError, the call from
\* collect_book_description itself UnboundLocalError; nothing is changed
handle_batch_menu_actions_unbound == UNCHANGED <<fsm, data>>

collect_book_title(op, text) ==
    /\ fsm[op] = BatchUploadState.waiting_for_title
    /\ DispatchedToBatch(text)
    /\ last' = TextMessage(op, text)
    /\ IF text \in BatchMenuTexts THEN handle_batch_menu_actions_unbound
       ELSE /\ data' = [data EXCEPT ![op].current_file.title = strip(text)]
            /\ fsm' = [fsm EXCEPT ![op] = BatchUploadState.waiting_for_author]
    /\ UNCHANGED <<storeVars, registered, legacy_first, searchVars>>

collect_book_author(op, text) ==
    /\ fsm[op] = BatchUploadState.waiting_for_author
    /\ DispatchedToBatch(text)
    /\ last' = TextMessage(op, text)
    /\ IF text \in BatchMenuTexts THEN handle_batch_menu_actions_unbound
       ELSE /\ data' = [data EXCEPT ![op].current_file.author =
                           IF IsBatchSkip(text) THEN NoText ELSE strip(text)]
            /\ IF AsksNarrator(data[op].current_file.file_type)
               THEN fsm' = [fsm EXCEPT ![op] = BatchUploadState.waiting_for_narrator]
               ELSE fsm' = [fsm EXCEPT ![op] = BatchUploadState.waiting_for_description]
    /\ UNCHANGED <<storeVars, registered, legacy_first, searchVars>>

collect_book_narrator(op, text) ==
    /\ fsm[op] = BatchUploadState.waiting_for_narrator
    /\ DispatchedToBatch(text)
    /\ last' = TextMessage(op, text)
    /\ IF text \in BatchMenuTexts THEN handle_batch_menu_actions_unbound
       ELSE /\ data' = [data EXCEPT ![op].current_file.narrator =
                           IF IsBatchSkip(text) THEN NoText ELSE strip(text)]
            /\ fsm' = [fsm EXCEPT ![op] = BatchUploadState.waiting_for_description]
    /\ UNCHANGED <<storeVars, registered, legacy_first, searchVars>>

\* running to its end, the handler registers the handlers defined inside it
collect_book_description(op, text) ==
    /\ fsm[op] = BatchUploadState.waiting_for_description
    /\ DispatchedToBatch(text)
    /\ last' = TextMessage(op, text)
    /\ IF text \in BatchMenuTexts
       THEN handle_batch_menu_actions_unbound /\ UNCHANGED registered
       ELSE LET current_file == [data[op].current_file EXCEPT !.description =
                                    IF IsBatchSkip(text) THEN NoText ELSE strip(text)]
            IN  /\ data' = [data EXCEPT ![op].books_batch = Append(@, current_file),
                                        ![op].current_file = NoFile]
                /\ fsm' = [fsm EXCEPT ![op] = BatchUploadState.collecting_books]
                /\ registered' = TRUE
    /\ UNCHANGED <<storeVars, legacy_first, searchVars>>

\* Text(equals = FINISH), state BatchUploadState.collecting_books; user_db is not imported by
\* batch_upload_handlers.py, so with a batch to save the handler raises
\* NameError before it saves anything
finish_batch_upload(op, text) ==
    /\ registered
    /\ fsm[op] = BatchUploadState.collecting_books
    /\ text = FINISH
    /\ last' = TextMessage(op, text)
    /\ IF data[op].books_batch = <<>> THEN finish(op) ELSE UNCHANGED <<fsm, data>>
    /\ UNCHANGED <<storeVars, registered, legacy_first, searchVars>>

(* ------------------ BookState (adminlar.py): one PDF ------------------ *)
\* adminlar.py reads a row of the store by position (category[1]) too.

\* user_db.check_if_admin of the operator's Users row
check_admin_permission(op) == op \in Operators

start_add_book(op, text) ==
    /\ fsm[op] = none
    /\ text = ADD_BOOK
    /\ check_admin_permission(op)
    /\ last' = TextMessage(op, text)
    /\ IF get_all_categories(Categories) = {} THEN UNCHANGED fsm
       ELSE fsm' = [fsm EXCEPT ![op] = BookState.waiting_for_category]
    /\ UNCHANGED <<storeVars, data, registered, legacy_first, searchVars>>

\* callback "add_book_cat:<id>": the id is stored before the row is read
process_book_category(op, category_id) ==
    /\ fsm[op] = BookState.waiting_for_category
    /\ last' = CallbackQuery(op, "add_book_cat", category_id)
    /\ data' = [data EXCEPT ![op].category_id = category_id]
    /\ IF get_category_by_id(Categories, category_id) = NoRow THEN UNCHANGED fsm
       ELSE fsm' = [fsm EXCEPT ![op] = BookState.waiting_for_pdf]
    /\ UNCHANGED <<storeVars, registered, legacy_first, searchVars>>

\* content_types = DOCUMENT: an audio message is not handled here; no row of
\* Books is compared with the file
process_book_pdf(op, file_id) ==
    /\ fsm[op] = BookState.waiting_for_pdf
    /\ FileKind(file_id) # AUDIO
    /\ last' = FileMessage(op, file_id, NoText)
    /\ IF FileKind(file_id) # PDF THEN UNCHANGED <<fsm, data>>
       ELSE /\ data' = [data EXCEPT ![op].file_id = file_id,
                                    ![op].file_name = FileName(file_id)]
            /\ fsm' = [fsm EXCEPT ![op] = BookState.waiting_for_title]
    /\ UNCHANGED <<storeVars, registered, legacy_first, searchVars>>

process_book_title(op, text) ==
    /\ fsm[op] = BookState.waiting_for_title
    /\ last' = TextMessage(op, text)
    /\ IF text = CANCEL_OLD THEN finish(op)
       ELSE /\ data' = [data EXCEPT ![op].title = strip(text)]
            /\ fsm' = [fsm EXCEPT ![op] = BookState.waiting_for_author]
    /\ UNCHANGED <<storeVars, registered, legacy_first, searchVars>>

process_book_author(op, text) ==
    /\ fsm[op] = BookState.waiting_for_author
    /\ last' = TextMessage(op, text)
    /\ IF text = CANCEL_OLD THEN finish(op)
       ELSE /\ data' = [data EXCEPT ![op].author =
                           IF text = SKIP_OLD THEN NoText ELSE strip(text)]
            /\ fsm' = [fsm EXCEPT ![op] = BookState.waiting_for_description]
    /\ UNCHANGED <<storeVars, registered, legacy_first, searchVars>>

\* add_book without file_type and narrator: 'pdf' and None
process_book_description(op, text) ==
    /\ fsm[op] = BookState.waiting_for_description
    /\ last' = TextMessage(op, text)
    /\ finish(op)
    /\ IF text = CANCEL_OLD THEN UNCHANGED <<Books, nextBookId>>
       ELSE LET description == IF text = SKIP_OLD THEN NoText ELSE strip(text) IN
            /\ nextBookId <= MaxBooks
            /\ Books' = add_book(Books, nextBookId, data[op].title, data[op].file_id,
                                 PDF, data[op].category_id, data[op].author, NoText,
                                 description, op)
            /\ nextBookId' = nextBookId + 1
    /\ UNCHANGED <<Categories, nextCategoryId, pathCall, dl, registered, legacy_first, searchVars>>

\* the states in which cancel_handler is the first handler matching CANCEL_OLD
CancelHandlerStates ==
    {none, BookState.waiting_for_category, BookState.waiting_for_pdf,
     BatchUploadState.waiting_for_category, BatchUploadState.collecting_books}
    \cup (IF legacy_first THEN BatchTextStates ELSE {})

\* Text(equals = CANCEL_OLD), state = "*"
cancel_handler(op, text) ==
    /\ text = CANCEL_OLD
    /\ fsm[op] \in CancelHandlerStates
    /\ last' = TextMessage(op, text)
    /\ IF fsm[op] # none THEN finish(op) ELSE UNCHANGED <<fsm, data>>
    /\ UNCHANGED <<storeVars, registered, legacy_first, searchVars>>

(* ----------------------- the upload specifications -------------------- *)

\* the catalog the upload dialogues start from, made by three runs of the
\* creation dialogue: Lit with its subcategory Po, and Sci without any
SeededCategories ==
    add_category(
        add_category(
            add_category(EmptyTable, 1, Lit, 1, NoText, NULL),
            2, Po, 1, NoText, 1),
        3, Sci, 1, NoText, NULL)

\* an id no row of the seeded catalog has
MissingId == Cardinality(DOMAIN SeededCategories) + 1

\* either import order of adminlar.py and batch_upload_handlers.py
InitUpload ==
    /\ Categories = SeededCategories
    /\ nextCategoryId = MissingId
    /\ Books = EmptyTable
    /\ nextBookId = 1
    /\ pathCall = IdlePath
    /\ dl = IdleDownloads
    /\ InitBot
    /\ legacy_first \in BOOLEAN

Ti == <<"T", "i">>
Au == <<"A", "u">>

\* a title of one character between blanks, a good one, and one of 256 characters
TitleTexts == {<<" ", "x", " ">>, Ti, Rep("y", 256)}

\* a file sent with no caption, or with "title | author"
Captions == {NoText, <<"T", "i", " ", "|", " ", "A", "u">>}

\* what the operators send: ids of buttons, files, and texts for each prompt
Inputs ==
    [main_ids |-> {1, 3, MissingId}, sub_ids |-> {2}, files |-> Files,
     captions |-> Captions,
     titles |-> TitleTexts \cup {CANCEL},
     authors |-> {SKIP, <<" ", "A", "u">>, CANCEL},
     narrators |-> {SKIP, CANCEL},
     descriptions |-> {SKIP, CANCEL},
     old_titles |-> {<<"x">>, Ti, CANCEL_OLD},
     old_fields |-> {SKIP_OLD, CANCEL_OLD},
     batch_titles |-> {<<"x">>, Ti, CANCEL_OLD},
     batch_fields |-> {<<"S", "k", "i", "p">>, CANCEL_OLD}]

\* the dialogue of admin_book_handlers.py for one book
SingleUpload(op, in) ==
    \/ add_book_start(op, UPLOAD_BOOK)
    \/ \E cat_id \in in.main_ids : add_book_category(op, cat_id)
    \/ \E sub_id \in in.sub_ids : add_book_subcategory(op, sub_id)
    \/ \E cat_id \in in.main_ids : add_book_direct_category(op, cat_id)
    \/ \E file_id \in in.files : add_book_file(op, file_id)
    \/ \E text \in in.titles : add_book_title(op, text)
    \/ \E text \in in.authors : add_book_author(op, text)
    \/ \E text \in in.narrators : add_book_narrator(op, text)
    \/ \E text \in in.descriptions : add_book_description(op, text)
    \/ cancel_any(op, CANCEL)

BulkUpload(op, in) ==
    \/ bulk_upload_start(op, BULK_UPLOAD)
    \/ \E cat_id \in in.main_ids : bulk_category_selected(op, cat_id)
    \/ \E sub_id \in in.sub_ids : bulk_subcategory_selected(op, sub_id)
    \/ \E cat_id \in in.main_ids : bulk_direct_category(op, cat_id)
    \/ \E file_id \in in.files, caption \in in.captions :
          bulk_receive_file(op, file_id, caption)
    \/ bulk_finish(op, DONE)

BatchUpload(op, in) ==
    \/ start_batch_upload(op, BATCH_UPLOAD)
    \/ \E main_cat_id \in in.main_ids : process_batch_category(op, main_cat_id)
    \/ \E sub_cat_id \in in.sub_ids : process_batch_subcategory(op, sub_cat_id)
    \/ \E cat_id \in in.main_ids : process_batch_direct_category(op, cat_id)
    \/ \E file_id \in in.files : collect_book_file(op, file_id)
    \/ \E text \in in.batch_titles : collect_book_title(op, text)
    \/ \E text \in in.batch_fields : collect_book_author(op, text)
    \/ \E text \in in.batch_fields : collect_book_narrator(op, text)
    \/ \E text \in in.batch_fields : collect_book_description(op, text)
    \/ finish_batch_upload(op, FINISH)

LegacyUpload(op, in) ==
    \/ start_add_book(op, ADD_BOOK)
    \/ \E category_id \in in.main_ids \cup in.sub_ids : process_book_category(op, category_id)
    \/ \E file_id \in in.files : process_book_pdf(op, file_id)
    \/ \E text \in in.old_titles : process_book_title(op, text)
    \/ \E text \in in.old_fields : process_book_author(op, text)
    \/ \E text \in in.old_fields : process_book_description(op, text)
    \/ cancel_handler(op, CANCEL_OLD)

\* one operator runs the upload dialogues, one after the other
Next ==
    \/ SingleUpload(1, Inputs)
    \/ BulkUpload(1, Inputs)
    \/ BatchUpload(1, Inputs)
    \/ LegacyUpload(1, Inputs)

Spec == InitUpload /\ [][Next]_vars

\* two operators run the bulk and the guided batch dialogue at the same time
LeanInputs ==
    [main_ids |-> {1, 3}, sub_ids |-> {2}, files |-> {"f2"},
     captions |-> {NoText},
     batch_titles |-> {Ti, CANCEL_OLD},
     batch_fields |-> {SKIP_WORD, CANCEL_OLD}]

NextTwo ==
    \E op \in Operators :
        \/ BulkUpload(op, LeanInputs)
        \/ BatchUpload(op, LeanInputs)
        \/ cancel_any(op, CANCEL)
        \/ cancel_handler(op, CANCEL_OLD)

SpecTwo == InitUpload /\ [][NextTwo]_vars

(* ------------------------ the upload properties ----------------------- *)

SameFile(a, b) == a # b /\ Books[a].file_id = Books[b].file_id

\* C3: in every state reached through upload dialogues (one book, bulk by
\* caption, guided batch, the older one-PDF dialogue), no two books that are
\* not deleted have the same file_id.
C3_FileReferenceUnique == \A a, b \in Live(Books) : ~SameFile(a, b)

\* a bulk dialogue whose queue held one file twice has just been finished
C3_QueuedTwiceSaved ==
    /\ last.text = DONE
    /\ \E a, b \in Live(Books) :
          /\ SameFile(a, b)
          /\ Books[a].uploaded_by = last.op
          /\ Books[b].uploaded_by = last.op
          /\ nextBookId = 3

\* the handler of this step calls add_book for the file the operator collected
CallsAddBook(op) ==
    /\ last'.op = op
    /\ last'.kind = "text"
    /\ \/ fsm[op] = AdminBookState.enter_description /\ last'.text # CANCEL
       \/ fsm[op] = BookState.waiting_for_description /\ last'.text # CANCEL_OLD

LiveWithFile(table, file_id) == {b \in Live(table) : table[b].file_id = file_id}

\* C6: a call of add_book with a file_id that a live book already has fails
\* (no row is inserted), and afterwards exactly one book has that file_id.
C6_DuplicateAddBookFails ==
    [][\A op \in Operators :
          (CallsAddBook(op) /\ LiveWithFile(Books, data[op].file_id) # {})
              => /\ Books' = Books
                 /\ Cardinality(RowsByFile(Books', data[op].file_id)) = 1]_vars

\* the one-PDF dialogue of adminlar.py has just inserted a second row for a file
C6_SecondRowInserted ==
    /\ last.text = SKIP_OLD
    /\ last.op \in Operators
    /\ fsm[last.op] = none
    /\ \E a, b \in Live(Books) : SameFile(a, b) /\ b = nextBookId - 1

UploadStates ==
    {AdminBookState.select_category, AdminBookState.select_subcategory, AdminBookState.upload_file, AdminBookState.enter_title, AdminBookState.enter_author,
     AdminBookState.enter_narrator, AdminBookState.enter_description,
     AdminBulkState.select_category, AdminBulkState.select_subcategory, AdminBulkState.uploading,
     BatchUploadState.waiting_for_category, BatchUploadState.collecting_books} \cup BatchTextStates
    \cup {BookState.waiting_for_category, BookState.waiting_for_pdf, BookState.waiting_for_title,
          BookState.waiting_for_author, BookState.waiting_for_description}

\* the text of the cancel button the dialogue of this state shows
CancelSignal(state) ==
    IF state \in AdminTextStates \cup AdminOtherStates THEN CANCEL ELSE CANCEL_OLD

\* C7: when the operator sends the cancel signal in any state of an upload
\* dialogue, the dialogue ends (no state, no collected data), no row of Books
\* is created and the rows saved earlier stay as they are.
C7_CancelEndsSession ==
    [][\A op \in Operators :
          (/\ last'.op = op
           /\ last'.kind = "text"
           /\ fsm[op] \in UploadStates
           /\ last'.text = CancelSignal(fsm[op]))
              => /\ fsm'[op] = none
                 /\ data'[op] = EmptyData
                 /\ Books' = Books]_vars

\* the cancel button was pressed at a prompt of the guided batch dialogue and
\* the dialogue is still at that prompt, with its file
C7_CancelIgnored ==
    /\ last.kind = "text"
    /\ last.text = CANCEL_OLD
    /\ last.op \in Operators
    /\ fsm[last.op] \in BatchTextStates
    /\ data[last.op].current_file # NoFile

AuthorStates == {AdminBookState.enter_author, BatchUploadState.waiting_for_author, BookState.waiting_for_author}
NarratorStates == {AdminBookState.enter_narrator, BatchUploadState.waiting_for_narrator}
DescriptionStates ==
    {AdminBookState.enter_description, BatchUploadState.waiting_for_description, BookState.waiting_for_description}

\* the file of the record the operator is filling in
CurrentFileId(d) == IF d.current_file # NoFile THEN d.current_file.file_id ELSE d.file_id

\* a skip or a value for the prompt of this state: neither the cancel signal
\* nor, in the guided batch dialogue, a text of its menu
IsAnswer(state, text) ==
    /\ text # CancelSignal(state)
    /\ state \in BatchTextStates => text \notin BatchMenuTexts

\* C8: in every upload dialogue, an answer (a skip or a value) to the author
\* prompt for a PDF file leads to the description prompt, and the narrator
\* prompt is entered only for a file of kind AUDIO.
C8_NarratorOnlyForAudio ==
    [][\A op \in Operators :
          /\ (/\ last'.op = op
              /\ last'.kind = "text"
              /\ fsm[op] \in AuthorStates
              /\ FileKind(CurrentFileId(data[op])) = PDF
              /\ IsAnswer(fsm[op], last'.text))
                 => fsm'[op] \in DescriptionStates
          /\ (fsm'[op] \in NarratorStates /\ fsm[op] \notin NarratorStates)
                 => /\ fsm[op] \in AuthorStates
                    /\ FileKind(CurrentFileId(data'[op])) = AUDIO]_vars

\* a PDF saved by the one-book dialogue with an author typed in, and the
\* guided batch dialogue at the description prompt for a PDF after a skip of
\* the author
C8_Witness ==
    /\ \E b \in DOMAIN Books : Books[b].file_type = PDF /\ Books[b].author = Au
    /\ last.op \in Operators
    /\ IsBatchSkip(last.text)
    /\ fsm[last.op] = BatchUploadState.waiting_for_description
    /\ FileKind(CurrentFileId(data[last.op])) = PDF
    /\ data[last.op].current_file.author = NoText

TitleStates == {AdminBookState.enter_title, BatchUploadState.waiting_for_title, BookState.waiting_for_title}

\* C9: in every upload dialogue, a title that has fewer than 2 or more than
\* 255 characters leaves the dialogue at the title prompt with the collected
\* data unchanged, and the author prompt follows only a title of 2 to 255
\* characters.
C9_BadTitleStays ==
    [][\A op \in Operators :
          (/\ last'.op = op
           /\ last'.kind = "text"
           /\ fsm[op] \in TitleStates
           /\ IsAnswer(fsm[op], last'.text))
              => /\ (Len(strip(last'.text)) < 2 \/ Len(strip(last'.text)) > 255)
                        => (fsm'[op] = fsm[op] /\ data'[op] = data[op])
                 /\ fsm'[op] \in AuthorStates
                        => (Len(strip(last'.text)) >= 2 /\ Len(strip(last'.text)) <= 255)]_vars

\* a dialogue is at its author prompt with a title of one character collected
C9_ShortTitleAccepted ==
    \E op \in Operators :
        \/ fsm[op] = BookState.waiting_for_author /\ Len(data[op].title) < 2
        \/ /\ fsm[op] = BatchUploadState.waiting_for_author
           /\ Len(data[op].current_file.title) < 2

\* C10: an update handled for one operator changes neither the state nor the
\* collected data nor the queued records of another operator, however the
\* updates of the two operators interleave.
C10_SessionsIndependent ==
    [][\A op \in Operators :
          last'.op # op => (fsm'[op] = fsm[op] /\ data'[op] = data[op])]_vars

\* operator 1 has a file queued in a bulk dialogue while operator 2 has just
\* put a record into the batch of a guided batch dialogue
C10_Witness ==
    /\ fsm[1] = AdminBulkState.uploading
    /\ data[1].books_queue # <<>>
    /\ last.op = 2
    /\ fsm[2] = BatchUploadState.collecting_books
    /\ data[2].books_batch # <<>>

(* ------------- a start button pressed during a dialogue --------------- *)

\* the texts of the buttons that start an upload dialogue
StartTexts == {UPLOAD_BOOK, BULK_UPLOAD, BATCH_UPLOAD}

\* the state the start handler of this button sets
StartState(text) ==
    IF text = UPLOAD_BOOK THEN AdminBookState.select_category
    ELSE IF text = BULK_UPLOAD THEN AdminBulkState.select_category
    ELSE BatchUploadState.waiting_for_category

\* add_book_start, bulk_upload_start and start_batch_upload are registered
\* without state=, so they match only while no state is set; in a state that
\* waits for a button or a file no other handler takes the text either, and
\* the dispatcher drops the message
Unhandled(op, text) ==
    /\ text \in StartTexts
    /\ fsm[op] \in (AdminOtherStates \ {AdminCategoryState.select_parent})
                   \cup {BatchUploadState.waiting_for_category,
                         BatchUploadState.collecting_books}
    /\ last' = TextMessage(op, text)
    /\ UNCHANGED <<storeVars, fsm, data, registered, legacy_first, searchVars>>

\* one operator, category 3 (no subcategories), and a start button sent in
\* place of a title or pressed where a button or a file is awaited
NextRestart ==
    \/ add_book_start(1, UPLOAD_BOOK)
    \/ add_book_category(1, 3)
    \/ \E file_id \in {"f1", "f2"} : add_book_file(1, file_id)
    \/ \E text \in {Ti, BULK_UPLOAD} : add_book_title(1, text)
    \/ add_book_author(1, SKIP)
    \/ add_book_narrator(1, SKIP)
    \/ add_book_description(1, SKIP)
    \/ bulk_upload_start(1, BULK_UPLOAD)
    \/ bulk_category_selected(1, 3)
    \/ bulk_receive_file(1, "f1", NoText)
    \/ bulk_finish(1, DONE)
    \/ start_batch_upload(1, BATCH_UPLOAD)
    \/ process_batch_category(1, 3)
    \/ collect_book_file(1, "f1")
    \/ \E text \in {Ti, UPLOAD_BOOK} : collect_book_title(1, text)
    \/ collect_book_author(1, SKIP_WORD)
    \/ collect_book_description(1, SKIP_WORD)
    \/ cancel_any(1, CANCEL)
    \/ \E text \in StartTexts : Unhandled(1, text)

SpecRestart == InitUpload /\ [][NextRestart]_vars

\* C11: an operator has one upload dialogue at a time, and a start button
\* pressed while an earlier dialogue is unfinished discards it: afterwards the
\* operator is in the first state of the dialogue of that button and nothing
\* collected earlier is left in the data.
C11_StartDiscardsEarlierSession ==
    [][\A op \in Operators :
          (/\ last'.op = op
           /\ last'.kind = "text"
           /\ last'.text \in StartTexts
           /\ fsm[op] \in UploadStates)
              => /\ fsm'[op] = StartState(last'.text)
                 /\ data'[op] = EmptyData]_vars

\* the bulk start button, pressed at the title prompt of the one-book
\* dialogue, became the title of the file collected before
C11_StartTakenAsTitle ==
    /\ fsm[1] = AdminBookState.enter_author
    /\ last.text = BULK_UPLOAD
    /\ data[1].title = BULK_UPLOAD
    /\ data[1].file_id \in Files

(* ----------------------- calls of the store --------------------------- *)

\* a call of a BookDatabase method, with its arguments and what it returned
StoreCall(call, args, result) == [call |-> call, args |-> args, result |-> result]

\* the seeded catalog, no book, no call made yet
InitCatalog ==
    /\ Categories = SeededCategories
    /\ nextCategoryId = MissingId
    /\ Books = EmptyTable
    /\ nextBookId = 1
    /\ pathCall = IdlePath
    /\ dl = IdleDownloads
    /\ fsm = [op \in Operators |-> none]
    /\ InitSearchCache
    /\ data = [op \in Operators |-> EmptyData]
    /\ registered = FALSE
    /\ legacy_first = FALSE
    /\ last = StoreCall("none", <<>>, NULL)

\* a tuple of books_list: a PDF of operator 1 with this title in this category
Record(title, category_id) ==
    [title |-> title, file_id |-> "f1", file_type |-> PDF, category_id |-> category_id,
     author |-> NoText, narrator |-> NoText, description |-> NoText, uploaded_by |-> 1]

\* a title, the empty string, and None
RecordTitles == {Ti, <<>>, NoText}

\* the lists of at most n records of category 3
RECURSIVE RecordLists(_)
RecordLists(n) ==
    IF n = 0 THEN {<<>>}
    ELSE LET shorter == RecordLists(n - 1) IN
         shorter \cup {Append(l, Record(title, 3)) :
                          l \in {x \in shorter : Len(x) = n - 1}, title \in RecordTitles}

\* book_db.add_books_bulk(books_list)
call_add_books_bulk(books_list) ==
    /\ nextBookId + Len(books_list) - 1 <= MaxRecords
    /\ LET r == add_books_bulk(Books, nextBookId, books_list) IN
          /\ Books' = r.table
          /\ nextBookId' = r.next_id
          /\ last' = StoreCall("add_books_bulk", books_list, <<r.added, r.errors>>)
    /\ UNCHANGED <<Categories, nextCategoryId, pathCall, dl, fsm, data,
                   registered, legacy_first, searchVars>>

NextBulk == \E books_list \in RecordLists(MaxRecords) : call_add_books_bulk(books_list)

SpecBulk == InitCatalog /\ [][NextBulk]_vars

\* the ids, in order, of a set of rows
RECURSIVE Ascending(_)
Ascending(ids) ==
    IF ids = {} THEN <<>>
    ELSE LET least == CHOOSE i \in ids : \A j \in ids : i <= j
         IN  <<least>> \o Ascending(ids \ {least})

\* the records of the list whose title is not None, in order
Insertable(books_list) == SelectSeq(books_list, LAMBDA book : book.title # NoText)

\* C12: add_books_bulk handles every record by itself: the two counts add up
\* to the number of records, exactly `added` rows are new, the rows there
\* before are untouched, and every record that can be inserted is inserted,
\* also after a record that failed.
C12_RecordsIndependent ==
    [][last'.call = "add_books_bulk" =>
          LET books_list == last'.args
              new == Ascending(DOMAIN Books' \ DOMAIN Books)
          IN  /\ last'.result[1] + last'.result[2] = Len(books_list)
              /\ Len(new) = last'.result[1]
              /\ \A id \in DOMAIN Books : Books'[id] = Books[id]
              /\ Len(new) = Len(Insertable(books_list))
              /\ \A i \in 1..Len(new) :
                    Books'[new[i]].title = Insertable(books_list)[i].title]_vars

\* a call whose first record failed and whose second record was inserted
C12_Witness ==
    /\ last.call = "add_books_bulk"
    /\ Len(last.args) >= 2
    /\ last.args[1].title = NoText
    /\ last.args[2].title = Ti
    /\ last.result[1] >= 1
    /\ last.result[2] >= 1
    /\ \E id \in DOMAIN Books : Books[id].title = Ti

\* C13: of 5 records given to add_books_bulk, exactly one with an empty
\* title and four with a title, the one with the empty title fails: the
\* call returns (4, 1) and exactly 4 rows are new.
C13_EmptyTitleFails ==
    [][(/\ last'.call = "add_books_bulk"
        /\ Len(last'.args) = 5
        /\ \E i \in 1..5 : /\ last'.args[i].title = <<>>
                           /\ \A j \in (1..5) \ {i} : last'.args[j].title = Ti)
          => /\ last'.result = <<4, 1>>
             /\ Cardinality(DOMAIN Books' \ DOMAIN Books) = 4]_vars

\* record 3 of 5 had the empty title; the call returned (5, 0) and a row
\* with the empty title is in the table
C13_EmptyTitleSaved ==
    /\ last.call = "add_books_bulk"
    /\ Len(last.args) = 5
    /\ last.args[3].title = <<>>
    /\ \A j \in {1, 2, 4, 5} : last.args[j].title = Ti
    /\ last.result = <<5, 0>>
    /\ Cardinality({id \in DOMAIN Books : Books[id].title = <<>>}) = 1

(* ------------------- the queue of a bulk or batch dialogue ------------- *)

\* the dialogue holds a queue: the bulk dialogue while files are sent, the
\* guided batch dialogue from its first prompt on
QueueStates == {AdminBulkState.uploading, BatchUploadState.collecting_books} \cup BatchTextStates

\* the queue of the operator's dialogue
Queue(op) ==
    IF fsm[op] = AdminBulkState.uploading THEN data[op].books_queue
    ELSE data[op].books_batch

\* the update is the finish button of the dialogue the operator is in
FinishSignal(op, update) ==
    /\ update.kind = "text"
    /\ \/ fsm[op] = AdminBulkState.uploading /\ update.text = DONE
       \/ fsm[op] = BatchUploadState.collecting_books /\ update.text = FINISH

\* C14: while a bulk or batch dialogue holds a queue, no step but the finish
\* signal changes the Books table; the finish signal with k >= 1 queued
\* records ends the dialogue and leaves exactly k new rows, the queued
\* records in their order (every queued record has a title and a file, so
\* none of them can fail).
C14_QueueFlushedOnFinish ==
    [][\A op \in Operators :
          (last'.op = op /\ fsm[op] \in QueueStates) =>
             IF FinishSignal(op, last') /\ Queue(op) # <<>>
             THEN /\ fsm'[op] = none
                  /\ nextBookId' = nextBookId + Len(Queue(op))
                  /\ \A i \in 1..Len(Queue(op)) :
                        /\ (nextBookId + i - 1) \in DOMAIN Books' \ DOMAIN Books
                        /\ Books'[nextBookId + i - 1].file_id = Queue(op)[i].file_id
                        /\ Books'[nextBookId + i - 1].title = Queue(op)[i].title
             ELSE Books' = Books]_vars

\* the finish button of the guided batch dialogue was pressed with a record
\* in the batch: the batch is still there, the dialogue goes on and no row
\* was written
C14_BatchNeverSaved ==
    /\ last.kind = "text" /\ last.text = FINISH
    /\ fsm[1] = BatchUploadState.collecting_books
    /\ data[1].books_batch # <<>>
    /\ Books = EmptyTable

(* ------------------------- the queries on Books ------------------------ *)

\* the ids of a set, greatest first: ORDER BY b.created_at DESC, a row
\* inserted later having the later created_at
RECURSIVE Descending(_)
Descending(ids) ==
    IF ids = {} THEN <<>>
    ELSE LET top == CHOOSE x \in ids : \A y \in ids : y <= x
         IN  <<top>> \o Descending(ids \ {top})

\* a LIMIT that leaves the OFFSET out: the first rows, whatever the page
FirstRows(rows, limit, offset) ==
    SubSeq(rows, 1, IF limit < 0 \/ limit > Len(rows) THEN Len(rows) ELSE limit)

\* LIMIT ? OFFSET ? of SQLite: a negative LIMIT is no limit, a negative
\* OFFSET is 0
LimitOffset(rows, limit, offset) ==
    LET from == IF offset < 0 THEN 0 ELSE offset
        upto == IF limit < 0 \/ from + limit > Len(rows) THEN Len(rows) ELSE from + limit
    IN  SubSeq(rows, from + 1, upto)

\* the rounded-up quotient with no floor of 1
CeilOnly(total, per_page) == (total + per_page - 1) \div per_page

\* total_pages = (total + per_page - 1) // per_page if total > 0 else 1
TotalPages(total, per_page) ==
    IF total > 0 THEN (total + per_page - 1) \div per_page ELSE 1

\* a result whose has_next says that the page is full
NextWhenFull(items, total, page, per_page, total_pages) ==
    [items |-> items, total |-> total, page |-> page, per_page |-> per_page,
     total_pages |-> total_pages, has_next |-> Len(items) = per_page, has_prev |-> page > 1]

\* the dataclass PaginatedResult; items holds the ids of the rows
PaginatedResult(items, total, page, per_page, total_pages) ==
    [items |-> items, total |-> total, page |-> page, per_page |-> per_page,
     total_pages |-> total_pages, has_next |-> page < total_pages, has_prev |-> page > 1]

\* the WHERE clause of get_books: `if category_id:` and `if file_type:` leave
\* the condition out for None, 0 and ""
BooksWhere(books, category_id, file_type, include_deleted) ==
    {b \in DOMAIN books :
        /\ include_deleted \/ ~books[b].is_deleted
        /\ (category_id # NULL /\ category_id # 0) => books[b].category_id = category_id
        /\ file_type # "" => books[b].file_type = file_type}

\* a get_books that shows the last page for every page past it
ClampedPage(books, category_id, file_type, include_deleted, page, per_page) ==
    LET matching == BooksWhere(books, category_id, file_type, include_deleted)
        total == Cardinality(matching)
        shown == IF page > TotalPages(total, per_page) THEN TotalPages(total, per_page)
                 ELSE page
    IN  PaginatedResult(LimitOffset(Descending(matching), per_page, (shown - 1) * per_page),
                        total, page, per_page, TotalPages(total, per_page))

\* BookDatabase.get_books with the default sort
get_books(books, category_id, file_type, include_deleted, page, per_page) ==
    LET matching == BooksWhere(books, category_id, file_type, include_deleted)
        total == Cardinality(matching)
    IN  PaginatedResult(LimitOffset(Descending(matching), per_page, (page - 1) * per_page),
                        total, page, per_page, TotalPages(total, per_page))

\* the letter of SQLite's LIKE: the letters A to Z match in either case
FoldsTo(c, d) == lower(<<c>>) = lower(<<d>>)

\* text LIKE pattern with no ESCAPE: % stands for any run of characters, _ for
\* any one character
RECURSIVE LikePattern(_, _)
LikePattern(text, pattern) ==
    IF pattern = <<>> THEN text = <<>>
    ELSE IF Head(pattern) = "%"
         THEN \E i \in 0..Len(text) :
                 LikePattern(SubSeq(text, i + 1, Len(text)), Tail(pattern))
         ELSE /\ text # <<>>
              /\ Head(pattern) = "_" \/ FoldsTo(Head(text), Head(pattern))
              /\ LikePattern(Tail(text), Tail(pattern))

\* text LIKE ? bound to f"%{query}%": NULL matches nothing; a % or _ inside
\* the query is a wildcard like the two added around it
Like(text, query) ==
    /\ text # NoText
    /\ LikePattern(text, <<"%">> \o query \o <<"%">>)

\* the rows of a set in the order of search_books (ORDER BY Books.title):
\* rows of one title come in the order of their ids, titles in the order
\* `titles` lists them
RECURSIVE ByTitle(_, _, _)
ByTitle(books, ids, titles) ==
    IF titles = <<>> THEN <<>>
    ELSE LET same == {b \in ids : books[b].title = Head(titles)}
         IN  [i \in 1..Cardinality(same) |->
                 Descending(same)[Cardinality(same) + 1 - i]]
             \o ByTitle(books, ids \ same, Tail(titles))

\* the titles of the model in the order of their bytes
TitleOrder == <<<<>>, Au, Ti, <<"a", "u">>, <<"x">>>>

\* BookDatabase.search_books; `if file_type_value:` leaves the condition out
\* for None and ""
search_books(books, query, file_type, page, per_page) ==
    LET matching == {b \in DOMAIN books :
                        /\ ~books[b].is_deleted
                        /\ file_type # "" => books[b].file_type = file_type
                        /\ \/ Like(books[b].title, query)
                           \/ Like(books[b].author, query)
                           \/ Like(books[b].narrator, query)}
        total == Cardinality(matching)
    IN  PaginatedResult(LimitOffset(ByTitle(books, matching, TitleOrder), per_page,
                                    (page - 1) * per_page),
                        total, page, per_page, TotalPages(total, per_page))

\* a count that takes the soft-deleted rows along
CountsDeleted(books, category_id) ==
    Cardinality({b \in DOMAIN books : books[b].category_id = category_id})

\* BookDatabase.count_books_by_category with no file_type
count_books_by_category(books, category_id) ==
    Cardinality({b \in DOMAIN books :
                    books[b].category_id = category_id /\ ~books[b].is_deleted})

(* ------------------- deleting and restoring: the trash ----------------- *)

\* the store's add_book for a PDF of operator 1 filed under a row of Categories
TrashAddBook(title, category_id) ==
    /\ nextBookId <= MaxBooks
    /\ category_id \in DOMAIN Categories
    /\ last' = Update(NULL, "store", title, "f1", "add_book", category_id)
    /\ Books' = add_book(Books, nextBookId, title, "f1", PDF, category_id,
                         NoText, NoText, NoText, 1)
    /\ nextBookId' = nextBookId + 1
    /\ UNCHANGED <<Categories, nextCategoryId, pathCall, dl,
                   fsm, data, registered, legacy_first, searchVars>>

\* operator 1 files books under the seeded categories, deletes and restores
\* categories and books
NextTrash ==
    \/ \E category_id \in DOMAIN SeededCategories : TrashAddBook(Ti, category_id)
    \/ \E action \in ConfirmActions, item_id \in DOMAIN SeededCategories :
          confirm_yes(1, action, item_id)
    \/ \E cat_id \in DOMAIN SeededCategories : restore_category(1, cat_id)
    \/ \E book_id \in 1..MaxBooks : restore_book(1, book_id)

\* the seeded catalog with no book; the import order plays no part
InitTrash == InitUpload /\ legacy_first = FALSE

SpecTrash == InitTrash /\ [][NextTrash]_vars

\* the update confirms this action on a row the table holds
Confirms(update, action, table) ==
    /\ update.kind = "callback"
    /\ update.cb = "adm_yes:" \o action
    /\ update.arg \in DOMAIN table

\* C15: once the soft delete of a category is confirmed, no book filed under
\* it is live any more - get_books and search_books return none of them and
\* count_books_by_category counts none - and none of its subcategories is.
C15_SoftDeleteTakesBooksAlong ==
    [][Confirms(last', "del_cat", Categories) =>
          /\ \A b \in DOMAIN Books' :
                Books'[b].category_id = last'.arg =>
                   /\ \A i \in DOMAIN get_books(Books', last'.arg, "", FALSE, 1, MaxBooks).items :
                         get_books(Books', last'.arg, "", FALSE, 1, MaxBooks).items[i] # b
                   /\ \A i \in DOMAIN search_books(Books', Books'[b].title, "", 1, MaxBooks).items :
                         search_books(Books', Books'[b].title, "", 1, MaxBooks).items[i] # b
          /\ count_books_by_category(Books', last'.arg) = 0
          /\ get_subcategories(Categories', last'.arg) = {}]_vars

\* category 3 was soft-deleted and the book filed under it is still counted
\* and listed
C15_BooksStayLive ==
    /\ Confirms(last, "del_cat", Categories)
    /\ last.arg = 3
    /\ Categories[3].is_deleted
    /\ count_books_by_category(Books, 3) = 1
    /\ Len(get_books(Books, 3, "", FALSE, 1, MaxBooks).items) = 1
    /\ Len(search_books(Books, Ti, "", 1, MaxBooks).items) = 1

Restores(update, button) == update.kind = "callback" /\ update.cb = button

\* C17: restoring a category that is live changes no row of the store, and a
\* second restore_category or restore_book right after the first one would
\* change nothing: the state after one restore is the state after two.
C17_RestoreIdempotent ==
    [][/\ Restores(last', "adm_restore_cat") =>
             /\ Books' = Books
             /\ (last'.arg \in Live(Categories)) => Categories' = Categories
             /\ BookDatabase_restore_category(Categories', last'.arg) = Categories'
       /\ Restores(last', "adm_restore_book") =>
             /\ Categories' = Categories
             /\ (last'.arg \in Live(Books)) => Books' = Books
             /\ BookDatabase_restore_book(Books', last'.arg) = Books']_vars

\* Lit was restored while Po and a book are in the trash: Lit is live with
\* no deleted_at, the trash is as it was
C17_Witness ==
    /\ Restores(last, "adm_restore_cat")
    /\ last.arg = 1
    /\ 1 \in Live(Categories) /\ Categories[1].deleted_at = NULL
    /\ 2 \in DOMAIN Categories /\ Categories[2].is_deleted /\ Categories[2].deleted_at \in Times
    /\ \E b \in DOMAIN Books : Books[b].is_deleted /\ Books[b].deleted_at \in Times

(* ---------------------- the paginated queries, called ------------------ *)

\* the rows the queries are run on: PDFs titled Ti of operator 1, filed under
\* Po or Sci, live or soft-deleted
PageRows ==
    {[BookRow(Ti, "f1", PDF, category_id, NoText, NoText, NoText, 1)
         EXCEPT !.is_deleted = deleted,
                !.deleted_at = IF deleted THEN 1 ELSE NULL] :
        category_id \in {2, 3}, deleted \in BOOLEAN}

\* the seeded catalog with any table of at most MaxRows such rows
InitPages ==
    /\ Categories = SeededCategories
    /\ nextCategoryId = MissingId
    /\ Books \in UNION {[1..n -> PageRows] : n \in 0..MaxRows}
    /\ nextBookId = Cardinality(DOMAIN Books) + 1
    /\ pathCall = IdlePath
    /\ dl = IdleDownloads
    /\ fsm = [op \in Operators |-> none]
    /\ InitSearchCache
    /\ data = [op \in Operators |-> EmptyData]
    /\ registered = FALSE
    /\ legacy_first = FALSE
    /\ last = StoreCall("none", <<>>, NULL)

\* the filters, page numbers and page sizes the queries are called with: the
\* live books, the books of Sci with the deleted ones, the audio books (there
\* is none); pages up to one past the last page a table of MaxRows rows can
\* have
PageFilters ==
    {[category_id |-> NULL, file_type |-> "", include_deleted |-> FALSE],
     [category_id |-> 3, file_type |-> "", include_deleted |-> TRUE],
     [category_id |-> NULL, file_type |-> AUDIO, include_deleted |-> FALSE]}
PageNumbers == 1..(MaxRows + 1)
PageSizes == 1..MaxRows

\* book_db.get_books(category_id, file_type, include_deleted, page, per_page)
call_get_books(filter, page, per_page) ==
    /\ last' = StoreCall("get_books", <<filter, page, per_page>>,
                         get_books(Books, filter.category_id, filter.file_type,
                                   filter.include_deleted, page, per_page))
    /\ UNCHANGED <<storeVars, fsm, data, registered, legacy_first, searchVars>>

\* book_db.search_books(query, page = page, per_page = per_page)
call_search_books(query, page, per_page) ==
    /\ last' = StoreCall("search_books", <<query, page, per_page>>,
                         search_books(Books, query, "", page, per_page))
    /\ UNCHANGED <<storeVars, fsm, data, registered, legacy_first, searchVars>>

NextPages ==
    \/ \E filter \in PageFilters, page \in PageNumbers, per_page \in PageSizes :
          call_get_books(filter, page, per_page)
    \/ \E query \in {<<"t">>, Au}, page \in PageNumbers, per_page \in PageSizes :
          call_search_books(query, page, per_page)

SpecPages == InitPages /\ [][NextPages]_vars

\* the rows of Books a filter of get_books selects
Matching(filter) ==
    {b \in DOMAIN Books :
        /\ Books[b].is_deleted => filter.include_deleted
        /\ filter.category_id # NULL => Books[b].category_id = filter.category_id
        /\ filter.file_type # "" => Books[b].file_type = filter.file_type}

\* get_books called for one page of a filter
Page(filter, page, per_page) ==
    get_books(Books, filter.category_id, filter.file_type, filter.include_deleted,
              page, per_page)

\* the number of items on the pages 1..n
RECURSIVE ItemsOnPages(_, _, _)
ItemsOnPages(filter, per_page, n) ==
    IF n = 0 THEN 0
    ELSE Len(Page(filter, n, per_page).items) + ItemsOnPages(filter, per_page, n - 1)

\* C18: for every filter and every page size P >= 1, the pages 1..total_pages
\* of get_books hold as many items together as the filter matches books, and
\* total_pages is 1 when it matches none.
C18_PagesSumToTotal ==
    \A filter \in PageFilters, per_page \in PageSizes :
       /\ ItemsOnPages(filter, per_page, Page(filter, 1, per_page).total_pages)
             = Cardinality(Matching(filter))
       /\ Matching(filter) = {} => Page(filter, 1, per_page).total_pages = 1

\* get_books returned the second and last page of three live books, two to
\* a page: one item
C18_Witness ==
    /\ last.call = "get_books"
    /\ last.args[2] = 2 /\ last.args[3] = 2
    /\ last.result.total = 3
    /\ last.result.total_pages = 2
    /\ Len(last.result.items) = 1

\* the least k with k * per_page >= total
Ceiling(total, per_page) ==
    CHOOSE k \in 0..total : k * per_page >= total /\ \A j \in 0..(k - 1) : j * per_page < total

\* C19: the PaginatedResult of every get_books and search_books call has
\* total_pages = max(1, ceil(total / per_page)), which is at least 1.
C19_TotalPagesFormula ==
    last.call \in {"get_books", "search_books"} =>
       /\ last.result.total_pages >= 1
       /\ last.result.total_pages =
             IF Ceiling(last.result.total, last.result.per_page) > 1
             THEN Ceiling(last.result.total, last.result.per_page) ELSE 1

\* a search that matches no title of a table with live books: no item, one page
C19_Witness ==
    /\ last.call = "search_books"
    /\ last.args[1] = Au
    /\ Live(Books) # {}
    /\ last.result.total = 0
    /\ last.result.total_pages = 1
    /\ last.result.items = <<>>

\* C20: a get_books call for a page past total_pages returns no item, and the
\* total and total_pages that page 1 of the same filter returns.
C20_PagePastLastIsEmpty ==
    (last.call = "get_books" /\ last.args[2] > last.result.total_pages) =>
       /\ last.result.items = <<>>
       /\ last.result.total = Page(last.args[1], 1, last.args[3]).total
       /\ last.result.total = Cardinality(Matching(last.args[1]))
       /\ last.result.total_pages = Page(last.args[1], 1, last.args[3]).total_pages

\* page 3 of three live books, two to a page, was asked for
C20_Witness ==
    /\ last.call = "get_books"
    /\ last.args[2] = 3 /\ last.args[3] = 2
    /\ last.result.total = 3
    /\ last.result.total_pages = 2
    /\ last.result.items = <<>>

(* ------------------- the store, called operation by operation ---------- *)

\* a call raised TypeError: the function has no parameter of that name
TypeError == [raised |-> "TypeError"]

\* book_db.add_book of a PDF of operator 1; the new id is returned
call_add_book(title, category_id) ==
    /\ nextBookId <= MaxBooks
    /\ Books' = add_book(Books, nextBookId, title, "f1", PDF, category_id,
                         NoText, NoText, NoText, 1)
    /\ nextBookId' = nextBookId + 1
    /\ last' = StoreCall("add_book", <<title, category_id>>, nextBookId)
    /\ UNCHANGED <<Categories, nextCategoryId, pathCall, dl, fsm, data,
                   registered, legacy_first, searchVars>>

\* book_db.delete_book(book_id, hard_delete)
call_delete_book(book_id, hard_delete) ==
    /\ \E now \in Times : Books' = delete_book(Books, book_id, hard_delete, now)
    /\ last' = StoreCall("delete_book", <<book_id, hard_delete>>, NULL)
    /\ UNCHANGED <<Categories, nextCategoryId, nextBookId, pathCall, dl, fsm, data,
                   registered, legacy_first, searchVars>>

\* book_db.restore_book(book_id)
call_restore_book(book_id) ==
    /\ Books' = BookDatabase_restore_book(Books, book_id)
    /\ last' = StoreCall("restore_book", <<book_id>>, NULL)
    /\ UNCHANGED <<Categories, nextCategoryId, nextBookId, pathCall, dl, fsm, data,
                   registered, legacy_first, searchVars>>

\* book_db.delete_category(category_id, hard_delete), with the referential
\* actions of the schema after a DELETE
call_delete_category(category_id, hard_delete) ==
    /\ \E now \in Times :
          LET deleted == delete_category(Categories, category_id, hard_delete, now)
              after == OnDeleteCascade(deleted, Books, DOMAIN Categories \ DOMAIN deleted)
          IN  /\ Categories' = after.categories
              /\ Books' = after.books
    /\ last' = StoreCall("delete_category", <<category_id, hard_delete>>, NULL)
    /\ UNCHANGED <<nextCategoryId, nextBookId, pathCall, dl, fsm, data,
                   registered, legacy_first, searchVars>>

\* book_db.count_books_by_category(category_id), or the same call with the
\* keyword include_subcategories, which the function does not have
call_count_books_by_category(category_id, include_subcategories) ==
    /\ last' = StoreCall("count_books_by_category",
                         <<category_id, include_subcategories>>,
                         IF include_subcategories # NULL THEN TypeError
                         ELSE count_books_by_category(Books, category_id))
    /\ UNCHANGED <<storeVars, fsm, data, registered, legacy_first, searchVars>>

\* books are filed under the seeded categories, deleted and restored, and
\* counted by category
NextCount ==
    \/ \E category_id \in DOMAIN SeededCategories : call_add_book(Ti, category_id)
    \/ \E book_id \in 1..MaxBooks, hard_delete \in BOOLEAN :
          call_delete_book(book_id, hard_delete)
    \/ \E book_id \in 1..MaxBooks : call_restore_book(book_id)
    \/ \E category_id \in DOMAIN SeededCategories, hard_delete \in BOOLEAN :
          call_delete_category(category_id, hard_delete)
    \/ \E category_id \in 1..MissingId, include_subcategories \in {NULL, 1} :
          call_count_books_by_category(category_id, include_subcategories)

SpecCount == InitCatalog /\ [][NextCount]_vars

\* the live rows among the ids 1..n filed under exactly this category,
\* counted one id after the other
RECURSIVE LiveUnder(_, _)
LiveUnder(category_id, n) ==
    IF n = 0 THEN 0
    ELSE LiveUnder(category_id, n - 1)
         + (IF /\ n \in DOMAIN Books
               /\ Books[n].category_id = category_id
               /\ ~Books[n].is_deleted
            THEN 1 ELSE 0)

\* C21: after any sequence of add, soft-delete, restore and hard-delete
\* calls, count_books_by_category(id) without subcategories is the number of
\* rows of Books that are not deleted and have exactly this category_id, for
\* every id, and that is what a call returns.
C21_CountIsLiveRowsOfCategory ==
    /\ \A category_id \in 1..MissingId :
          count_books_by_category(Books, category_id)
             = LiveUnder(category_id, nextBookId - 1)
    /\ (last.call = "count_books_by_category" /\ last.args[2] = NULL) =>
          last.result = LiveUnder(last.args[1], nextBookId - 1)

\* Sci holds a live book and a soft-deleted one: the call counted 1
C21_Witness ==
    /\ last.call = "count_books_by_category"
    /\ last.args = <<3, NULL>>
    /\ last.result = 1
    /\ \E a, b \in DOMAIN Books :
          /\ Books[a].category_id = 3 /\ ~Books[a].is_deleted
          /\ Books[b].category_id = 3 /\ Books[b].is_deleted

\* the live books filed under a category or under one of its direct children
UnderWithChildren(category_id) ==
    {b \in Live(Books) :
        \/ Books[b].category_id = category_id
        \/ /\ Books[b].category_id \in DOMAIN Categories
           /\ Categories[Books[b].category_id].parent_id = category_id}

\* C22: a count asked for with include_subcategories = true raises no error
\* and is the number of live books filed under the category and under its
\* direct children.
C22_CountSpansChildren ==
    (last.call = "count_books_by_category" /\ last.args[2] # NULL) =>
       /\ last.result # TypeError
       /\ last.result = Cardinality(UnderWithChildren(last.args[1]))

\* one live book under Po, child of Lit: the count for Lit with
\* include_subcategories raised TypeError, and the count the function can
\* give for Lit is 0
C22_ChildrenNotCounted ==
    /\ last.call = "count_books_by_category"
    /\ last.args = <<1, 1>>
    /\ last.result = TypeError
    /\ Cardinality(UnderWithChildren(1)) = 1
    /\ \E b \in Live(Books) : Books[b].category_id = 2
    /\ count_books_by_category(Books, 1) = 0

(* ------------------------ add_category, round trip --------------------- *)

\* the call returned this value
Returned(value) == [raised |-> "", value |-> value]

\* the statement failed and the call raised sqlite3.IntegrityError
IntegrityError == [raised |-> "IntegrityError", value |-> NULL]

\* Database.execute (utils/db_api/database.py) hands the cursor of the
\* statement back, so that add_category returns cursor.lastrowid
ExecuteReturnsCursor == TRUE

\* what INSERT INTO Categories refuses: name VARCHAR(255) NOT NULL, created_by
\* INTEGER NOT NULL, and with enforced foreign keys a parent_id that is the
\* id of no row (the new row's own id is the id of a row)
CategoryRefused(table, id, name, created_by, parent_id) ==
    \/ name = NoText
    \/ created_by = NULL
    \/ /\ ForeignKeysEnforced
       /\ parent_id # NULL
       /\ parent_id \notin DOMAIN table \cup {id}

\* book_db.add_category(name, created_by, description, parent_id) by operator 1
call_add_category(name, description, parent_id) ==
    /\ nextCategoryId <= MaxCats
    /\ IF CategoryRefused(Categories, nextCategoryId, name, 1, parent_id)
       THEN /\ last' = StoreCall("add_category", <<name, description, parent_id>>,
                                 IntegrityError)
            /\ UNCHANGED <<Categories, nextCategoryId>>
       ELSE /\ Categories' = add_category(Categories, nextCategoryId, name, 1,
                                          description, parent_id)
            /\ nextCategoryId' = nextCategoryId + 1
            /\ last' = StoreCall("add_category", <<name, description, parent_id>>,
                                 Returned(IF ExecuteReturnsCursor THEN nextCategoryId
                                          ELSE NULL))
    /\ UNCHANGED <<Books, nextBookId, pathCall, dl, fsm, data, registered, legacy_first, searchVars>>

\* book_db.get_category_by_id(category_id)
call_get_category_by_id(category_id) ==
    /\ last' = StoreCall("get_category_by_id", <<category_id>>,
                         get_category_by_id(Categories, category_id))
    /\ UNCHANGED <<storeVars, fsm, data, registered, legacy_first, searchVars>>

\* an empty catalog, no call made yet
InitEmpty ==
    /\ InitStore
    /\ fsm = [op \in Operators |-> none]
    /\ InitSearchCache
    /\ data = [op \in Operators |-> EmptyData]
    /\ registered = FALSE
    /\ legacy_first = FALSE
    /\ last = StoreCall("none", <<>>, NULL)

\* names as they are typed (one with blanks around it, None), a description
\* or none, no parent, the first row, or an id no row has yet
NextRound ==
    \/ \E name \in {Lit, <<" ", "P", "o", " ">>, NoText},
          description \in {NoText, <<"d", " ">>},
          parent_id \in {NULL, 1, MaxCats} :
          call_add_category(name, description, parent_id)
    \/ \E category_id \in 1..(MaxCats + 1) : call_get_category_by_id(category_id)

SpecRound == InitEmpty /\ [][NextRound]_vars

\* the call returned the id of a new row
Added(call) == call.call = "add_category" /\ call.result.raised = ""

Delivery(p, book_id, delivered) ==
    Update(p, "delivery", NoText, "", IF delivered THEN "sent" ELSE "failed", book_id)

\* callback "u_dl:<id>" of user p: the book is fetched by id, deleted or not;
\* without a row the user is told so
download_book(p, book_id) ==
    /\ dl[p].pc = "idle"
    /\ last' = CallbackQuery(p, "u_dl", book_id)
    /\ IF book_id \in DOMAIN Books
       THEN /\ Books[book_id].download_count < NumDownloads
            /\ dl' = [dl EXCEPT ![p] = [pc |-> "send", book_id |-> book_id,
                                        seen |-> Books[book_id].download_count,
                                        result |-> NULL]]
       ELSE UNCHANGED dl
    /\ UNCHANGED <<Categories, nextCategoryId, Books, nextBookId, pathCall,
                   fsm, data, registered, legacy_first, searchVars>>

\* a handler that counts the download whether the file went out or not
CountsEveryAttempt(p, delivered) ==
    /\ dl[p].pc = "send"
    /\ last' = Delivery(p, dl[p].book_id, delivered)
    /\ Books' = IncrementStatement(Books, dl[p])
    /\ dl' = [dl EXCEPT ![p] = IdleDownload]
    /\ UNCHANGED <<Categories, nextCategoryId, nextBookId, pathCall,
                   fsm, data, registered, legacy_first, searchVars>>

\* send_book_file_callback(callback, book): the file is sent, and only when
\* sending raised nothing increment_download_count(book.id) runs; an
\* exception of the send skips it
send_book_file_callback(p, delivered) ==
    /\ dl[p].pc = "send"
    /\ last' = Delivery(p, dl[p].book_id, delivered)
    /\ IF delivered THEN Books' = IncrementStatement(Books, dl[p]) ELSE UNCHANGED Books
    /\ dl' = [dl EXCEPT ![p] = IdleDownload]
    /\ UNCHANGED <<Categories, nextCategoryId, nextBookId, pathCall,
                   fsm, data, registered, legacy_first, searchVars>>

\* books are added, two users ask for them at the same time, the files go
\* out or not, and operator 1 deletes books
NextDeliver ==
    \/ \E file_id \in {"f1", "f2"} : IncAddBook(file_id)
    \/ \E p \in Operators, book_id \in 1..MaxBooks : download_book(p, book_id)
    \/ \E p \in Operators, delivered \in BOOLEAN : send_book_file_callback(p, delivered)
    \/ \E action \in {"del_book", "hard_del_book"}, item_id \in 1..MaxBooks :
          confirm_yes(1, action, item_id)

SpecDeliver == Init /\ [][NextDeliver]_vars

\* the rows both tables hold have the same download_count
SameCounts(before, after) ==
    \A b \in DOMAIN before \cap DOMAIN after :
       after[b].download_count = before[b].download_count

\* C24: a delivery that succeeded adds exactly 1 to the download_count of the
\* delivered book and changes no other count; a delivery that failed, and
\* every other step, changes no count.
C24_CountedOncePerDelivery ==
    [][IF \E p \in 1..NumDownloads :
             /\ dl[p].pc = "send" /\ dl'[p].pc = "idle"
             /\ last'.cb = "sent"
             /\ dl[p].book_id \in DOMAIN Books
       THEN /\ last'.arg \in DOMAIN Books'
            /\ Books'[last'.arg].download_count = Books[last'.arg].download_count + 1
            /\ SameCounts(Remove(Books, {last'.arg}), Books')
       ELSE SameCounts(Books, Books')]_vars

\* book 1 went out twice and failed to go out once at least: it has been
\* counted twice
C24_Witness ==
    /\ last.kind = "delivery" /\ last.cb = "failed" /\ last.arg = 1
    /\ 1 \in DOMAIN Books
    /\ Books[1].download_count = 2

(* ------------------------- a file sent twice -------------------------- *)

\* the states in which a dialogue waits for the file of a book: the upload of
\* one book, the bulk upload by caption and the guided batch
AwaitFile ==
    {AdminBookState.upload_file, AdminBulkState.uploading, BatchUploadState.collecting_books}

\* the update of this step is a file for the operator's dialogue, and a row
\* of Books has the file already
SendsKnownFile(op) ==
    /\ fsm[op] \in AwaitFile
    /\ last'.op = op
    /\ last'.kind = "file"
    /\ get_book_by_file_id(Books, last'.file_id) # NoRow

\* the file collected for the record at hand, and the files waiting in a queue
HoldsNoMore(op) ==
    /\ data'[op].file_id = data[op].file_id
    /\ data'[op].current_file = data[op].current_file
    /\ data'[op].books_queue = data[op].books_queue
    /\ data'[op].books_batch = data[op].books_batch

\* C25: when a dialogue waits for a file and receives one that a book has
\* already, it stays in the state that waits for a file, and the file is
\* neither taken into the dialogue's data or queue nor saved as a book.
C25_DuplicateFileRejected ==
    [][\A op \in Operators :
          SendsKnownFile(op) => /\ fsm'[op] = fsm[op]
                                /\ HoldsNoMore(op)
                                /\ Books' = Books]_vars

\* the guided batch dialogue took a file that a book has, and asks for a title
C25_BatchTakesKnownFile ==
    /\ last.kind = "file"
    /\ last.op \in Operators
    /\ fsm[last.op] = BatchUploadState.waiting_for_title
    /\ data[last.op].current_file # NoFile
    /\ data[last.op].current_file.file_id = last.file_id
    /\ get_book_by_file_id(Books, last.file_id) # NoRow

(* ------------------- a category that does not resolve ----------------- *)

\* the states in which a dialogue waits for a category or subcategory button
SelectCategory ==
    {AdminBookState.select_category, AdminBookState.select_subcategory,
     AdminBulkState.select_category, AdminBulkState.select_subcategory,
     BatchUploadState.waiting_for_category}

\* the update of this step is a category button of the operator's dialogue
\* whose id no row of Categories has
SelectsMissing(op) ==
    /\ fsm[op] \in SelectCategory
    /\ last'.op = op
    /\ last'.kind = "callback"
    /\ get_category_by_id(Categories, last'.arg) = NoRow

\* C26: when the category or subcategory id selected in an upload dialogue
\* resolves to no category, the dialogue is over (no state, no data left)
\* and the step creates no book.
C26_MissingCategoryCancels ==
    [][\A op \in Operators :
          SelectsMissing(op) => /\ fsm'[op] = none
                                /\ data'[op] = EmptyData
                                /\ Books' = Books]_vars

\* a category button with an id of no row has been answered, and the dialogue
\* still waits for a category
C26_SessionGoesOn ==
    /\ last.kind = "callback"
    /\ last.op \in Operators
    /\ get_category_by_id(Categories, last.arg) = NoRow
    /\ fsm[last.op] \in SelectCategory

(* ------------------------ the parent of a category -------------------- *)

\* the rows this step inserts into Categories
Created == DOMAIN Categories' \ DOMAIN Categories

\* parent_id is NULL or the id of a row of the table
ParentExists(table, c) == table[c].parent_id = NULL \/ table[c].parent_id \in DOMAIN table

\* C27: the parent_id of every category is NULL or the id of a category that
\* exists, and a step creates a category only with a parent_id that is NULL
\* or the id of a category that is live (not deleted) at that moment.
C27_ParentResolves ==
    /\ [](\A c \in DOMAIN Categories : ParentExists(Categories, c))
    /\ [][\A c \in Created :
             \/ Categories'[c].parent_id = NULL
             \/ Categories'[c].parent_id \in Live(Categories)]_vars

\* the creation dialogue has just ended with a new category under a parent
\* that is in the trash
C27_CreatedUnderDeleted ==
    /\ last.kind = "text"
    /\ last.text \in DescriptionTexts \ {CANCEL}
    /\ last.op \in Operators
    /\ fsm[last.op] = none
    /\ nextCategoryId - 1 \in DOMAIN Categories
    /\ LET parent_id == Categories[nextCategoryId - 1].parent_id IN
          /\ parent_id \in DOMAIN Categories
          /\ Categories[parent_id].is_deleted

(* ------------------------ the graph of parent_id ---------------------- *)

\* book_db.update_category(category_id, parent_id = parent_id): name and
\* description are left at None, and parent_id = None gives no update at all
call_update_category(category_id, parent_id) ==
    /\ IF parent_id = NULL
       THEN /\ last' = StoreCall("update_category", <<category_id, parent_id>>,
                                 Returned(FALSE))
            /\ UNCHANGED Categories
       ELSE IF /\ ForeignKeysEnforced
               /\ category_id \in DOMAIN Categories
               /\ parent_id \notin DOMAIN Categories
            THEN /\ last' = StoreCall("update_category", <<category_id, parent_id>>,
                                      IntegrityError)
                 /\ UNCHANGED Categories
            ELSE /\ Categories' = update_category_parent(Categories, category_id, parent_id)
                 /\ last' = StoreCall("update_category", <<category_id, parent_id>>,
                                      Returned(TRUE))
    /\ UNCHANGED <<nextCategoryId, Books, nextBookId, pathCall, dl, fsm, data,
                   registered, legacy_first, searchVars>>

\* categories are added under no parent or under any id, and moved under any id
NextParent ==
    \/ \E name \in {Lit, Po}, parent_id \in {NULL} \cup (1..MaxCats) :
          call_add_category(name, NoText, parent_id)
    \/ \E category_id \in 1..MaxCats, parent_id \in {NULL} \cup (1..MaxCats) :
          call_update_category(category_id, parent_id)

SpecParent == InitEmpty /\ [][NextParent]_vars

\* the ids reached from c by following parent_id at most n times
RECURSIVE Up(_, _, _)
Up(table, c, n) ==
    IF n = 0 \/ c \notin DOMAIN table \/ table[c].parent_id = NULL THEN {}
    ELSE {table[c].parent_id} \cup Up(table, table[c].parent_id, n - 1)

Ancestors(table, c) == Up(table, c, Cardinality(DOMAIN table))

\* C28: in every state reached by add_category and update_category calls, no
\* category is its own parent or its own ancestor along parent_id.
C28_ParentGraphAcyclic ==
    \A c \in DOMAIN Categories : c \notin Ancestors(Categories, c)

\* update_category has just moved a category under one of its descendants
C28_MovedUnderDescendant ==
    /\ last.call = "update_category"
    /\ last.result = Returned(TRUE)
    /\ last.args[1] # last.args[2]
    /\ last.args[1] \in Ancestors(Categories, last.args[2])
    /\ last.args[1] \in Ancestors(Categories, last.args[1])

(* ------------------------------ the purge ----------------------------- *)

\* WHERE is_deleted = 1 AND deleted_at < ?  (a NULL deleted_at compares to NULL)
PurgedRows(table, cutoff) ==
    {id \in DOMAIN table :
        /\ table[id].is_deleted
        /\ table[id].deleted_at # NULL
        /\ table[id].deleted_at < cutoff}

\* BookDatabase.purge_deleted, cutoff = now - days_old: the DELETE on Books,
\* then the DELETE on Categories with the referential actions of the schema;
\* rowcount is the number of rows each statement names
purge_deleted(categories, books, cutoff) ==
    LET books_deleted == PurgedRows(books, cutoff)
        cats_deleted == PurgedRows(categories, cutoff)
        after == OnDeleteCascade(Remove(categories, cats_deleted),
                                 Remove(books, books_deleted), cats_deleted)
    IN  [categories |-> after.categories,
         books |-> after.books,
         result |-> [books |-> IF ExecuteReturnsCursor
                               THEN Cardinality(books_deleted) ELSE 0,
                     categories |-> IF ExecuteReturnsCursor
                                    THEN Cardinality(cats_deleted) ELSE 0]]

\* book_db.purge_deleted(days_old) at a time when now - days_old is cutoff
call_purge_deleted(cutoff) ==
    /\ LET purged == purge_deleted(Categories, Books, cutoff) IN
          /\ Categories' = purged.categories
          /\ Books' = purged.books
          /\ last' = StoreCall("purge_deleted", <<cutoff>>, purged.result)
    /\ UNCHANGED <<nextCategoryId, nextBookId, pathCall, dl, fsm, data,
                   registered, legacy_first, searchVars>>

\* book_db.restore_category(category_id)
call_restore_category(category_id) ==
    /\ Categories' = BookDatabase_restore_category(Categories, category_id)
    /\ last' = StoreCall("restore_category", <<category_id>>, NULL)
    /\ UNCHANGED <<nextCategoryId, Books, nextBookId, pathCall, dl, fsm, data,
                   registered, legacy_first, searchVars>>

\* books are added, books and categories go to the trash and come back, and
\* the trash is purged with a threshold at or after the deletions
NextPurge ==
    \/ \E category_id \in DOMAIN SeededCategories : call_add_book(Ti, category_id)
    \/ \E book_id \in 1..MaxBooks : call_delete_book(book_id, FALSE)
    \/ \E book_id \in 1..MaxBooks : call_restore_book(book_id)
    \/ \E category_id \in DOMAIN SeededCategories : call_delete_category(category_id, FALSE)
    \/ \E category_id \in DOMAIN SeededCategories : call_restore_category(category_id)
    \/ \E cutoff \in 1..(MaxTime + 1) : call_purge_deleted(cutoff)

SpecPurge == InitCatalog /\ [][NextPurge]_vars

\* the rows of a table that this step removes
Removed(before, after) == DOMAIN before \ DOMAIN after

\* C29: a purge_deleted call removes only rows that are soft-deleted when it
\* is called: no live book and no live category is removed by it.
C29_PurgeRemovesOnlyDeleted ==
    [][last'.call = "purge_deleted" =>
          /\ \A b \in Removed(Books, Books') : Books[b].is_deleted
          /\ \A c \in Removed(Categories, Categories') : Categories[c].is_deleted]_vars

\* a purge that named no book and one category has left neither the only
\* book ever added nor the subcategory Po
C29_LiveRowsPurged ==
    /\ last.call = "purge_deleted"
    /\ last.result = [books |-> 0, categories |-> 1]
    /\ nextBookId = 2
    /\ Books = EmptyTable
    /\ DOMAIN Categories = {3}

(* --------------------------- the hard delete -------------------------- *)

\* the update confirms the hard delete of a category or of a book
ConfirmsHardDelete(update) ==
    /\ update.kind = "callback"
    /\ update.cb \in {"adm_yes:hard_del_cat", "adm_yes:hard_del_book"}

\* C30: whatever the operator did before, a confirmed hard delete removes
\* from Categories and Books only rows that are soft-deleted at that moment;
\* no live row is physically removed.
C30_HardDeleteOnlyFromTrash ==
    [][ConfirmsHardDelete(last') =>
          /\ \A c \in Removed(Categories, Categories') : Categories[c].is_deleted
          /\ \A b \in Removed(Books, Books') : Books[b].is_deleted]_vars

\* the hard delete of Lit has been confirmed; a book that is not in the trash
\* is filed under Sci, and the other book added and the subcategory Po are gone
C30_LiveRowsRemoved ==
    /\ Confirms(last, "hard_del_cat", SeededCategories)
    /\ last.arg = 1
    /\ DOMAIN Categories = {3}
    /\ ~Categories[3].is_deleted
    /\ nextBookId = 3
    /\ DOMAIN Books = {2}
    /\ Books[2].category_id = 3
    /\ ~Books[2].is_deleted

(* ------------------------------ the search ---------------------------- *)

\* the rows searched: a title in capitals or in small letters, the text Au as
\* author, as narrator or nowhere, a PDF or an audio book, live or deleted
SearchRows ==
    {[BookRow(title, "f1", file_type, 3, people[1], people[2], NoText, 1)
         EXCEPT !.is_deleted = deleted,
                !.deleted_at = IF deleted THEN 1 ELSE NULL] :
        title \in {Ti, <<"a", "u">>},
        people \in {<<NoText, NoText>>, <<Au, NoText>>, <<NoText, Au>>},
        file_type \in {PDF, AUDIO},
        deleted \in BOOLEAN}

\* the seeded catalog with any table of fewer than MaxRows such rows
InitSearch ==
    /\ Categories = SeededCategories
    /\ nextCategoryId = MissingId
    /\ Books \in UNION {[1..n -> SearchRows] : n \in 0..(MaxRows - 1)}
    /\ nextBookId = Cardinality(DOMAIN Books) + 1
    /\ pathCall = IdlePath
    /\ dl = IdleDownloads
    /\ fsm = [op \in Operators |-> none]
    /\ InitSearchCache
    /\ data = [op \in Operators |-> EmptyData]
    /\ registered = FALSE
    /\ legacy_first = FALSE
    /\ last = StoreCall("none", <<>>, NULL)

\* book_db.search_books(query, file_type, page, per_page)
call_search_books_of_type(query, file_type, page, per_page) ==
    /\ last' = StoreCall("search_books", <<query, file_type, page, per_page>>,
                         search_books(Books, query, file_type, page, per_page))
    /\ UNCHANGED <<storeVars, fsm, data, registered, legacy_first, searchVars>>

\* queries of two characters: letters in either case, and one with the
\* character _ in it
NextSearch ==
    \E query \in {<<"t", "I">>, <<"a", "u">>, <<"_", "i">>},
       file_type \in {"", AUDIO},
       page \in {1, MaxRows - 1}, per_page \in {1, MaxRows} :
        call_search_books_of_type(query, file_type, page, per_page)

SpecSearch == InitSearch /\ [][NextSearch]_vars

\* query occurs in text, letters compared without regard to case
ContainsFolded(text, query) ==
    /\ text # NoText
    /\ \E i \in 0..(Len(text) - Len(query)) :
          lower(SubSeq(text, i + 1, i + Len(query))) = lower(query)

\* the live books that hold the query in title, author or narrator
Found(query, file_type) ==
    {b \in Live(Books) :
        /\ file_type # "" => Books[b].file_type = file_type
        /\ \/ ContainsFolded(Books[b].title, query)
           \/ ContainsFolded(Books[b].author, query)
           \/ ContainsFolded(Books[b].narrator, query)}

\* the place of a title in the order of titles
TitleRank(title) == CHOOSE i \in 1..Len(TitleOrder) : TitleOrder[i] = title

\* C31: search_books(query, file_kind) reports as total the number of live
\* books that hold the query in title, author or narrator, letters compared
\* without regard to case, among the books of file_kind when one is given;
\* the items it returns are such books, in the order of their titles.
C31_SearchFindsSubstring ==
    last.call = "search_books" =>
       /\ last.result.total = Cardinality(Found(last.args[1], last.args[2]))
       /\ \A i \in DOMAIN last.result.items :
             last.result.items[i] \in Found(last.args[1], last.args[2])
       /\ \A i, j \in DOMAIN last.result.items :
             i < j => TitleRank(Books[last.result.items[i]].title)
                         <= TitleRank(Books[last.result.items[j]].title)

\* the query _i found the book titled Ti, which holds no underscore
C31_UnderscoreIsWildcard ==
    /\ last.call = "search_books"
    /\ last.args[1] = <<"_", "i">>
    /\ last.result.total = 1
    /\ Len(last.result.items) = 1
    /\ Books[last.result.items[1]].title = Ti
    /\ Found(last.args[1], last.args[2]) = {}

(* ------------------------ start.py: the search cache ------------------ *)

\* cache_search calls made in a run of the cache on its own
MaxCached == 152

\* if len(_search_cache) > 100
CacheLimit == 100
\* sorted(_search_cache.keys())[:50]
CacheEvicted == 50

\* the n lowest keys of a set of keys
RECURSIVE Lowest(_, _)
Lowest(keys, n) ==
    IF n = 0 \/ keys = {} THEN {}
    ELSE LET low == CHOOSE k \in keys : \A other \in keys : k <= other
         IN  {low} \cup Lowest(keys \ {low}, n - 1)

\* a cache that is never pruned
NeverEvicts(cache, counter, query, user_id) ==
    [cache |-> Insert(cache, counter + 1, [query |-> query, user_id |-> user_id]),
     counter |-> counter + 1]

\* cache_search(query, user_id): the counter is incremented, the entry stored
\* under it, and once the cache holds more than CacheLimit entries the
\* CacheEvicted lowest keys are deleted; the counter is returned
cache_search(cache, counter, query, user_id) ==
    LET stored == Insert(cache, counter + 1, [query |-> query, user_id |-> user_id])
    IN  [cache |-> IF Cardinality(DOMAIN stored) > CacheLimit
                   THEN Remove(stored, Lowest(DOMAIN stored, CacheEvicted))
                   ELSE stored,
         counter |-> counter + 1]

\* get_cached_search(search_id): the query of the entry, or None
get_cached_search(cache, search_id) ==
    IF search_id \in DOMAIN cache THEN cache[search_id].query ELSE NoText

\* cache_search(query, user_id) called from a handler
call_cache_search(query, user_id) ==
    /\ search_id_counter < MaxCached
    /\ LET cached == cache_search(search_cache, search_id_counter, query, user_id) IN
          /\ search_cache' = cached.cache
          /\ search_id_counter' = cached.counter
          /\ last' = StoreCall("cache_search", <<query, user_id>>, cached.counter)
    /\ UNCHANGED <<storeVars, fsm, data, registered, legacy_first, searched>>

\* get_cached_search(search_id) called from a handler
call_get_cached_search(search_id) ==
    /\ last' = StoreCall("get_cached_search", <<search_id>>,
                         get_cached_search(search_cache, search_id))
    /\ UNCHANGED <<storeVars, fsm, data, registered, legacy_first, searchVars>>

\* one user caches the query Ti again and again; the first id, the id before
\* the newest one, the newest one and the next one are looked up
NextCache ==
    \/ call_cache_search(Ti, 1)
    \/ \E search_id \in {1, search_id_counter - 1, search_id_counter,
                         search_id_counter + 1} :
          call_get_cached_search(search_id)

SpecCache == InitEmpty /\ [][NextCache]_vars

\* C33: after any sequence of cache_search calls the cache holds at most
\* CacheLimit entries, they are the entries created last (the ids from some
\* id up to the counter, none missing), and the entry just created is there:
\* cache_search returned the counter, and get_cached_search of it gives the
\* query that was cached.
C33_CacheBoundedAndRecent ==
    /\ Cardinality(DOMAIN search_cache) <= CacheLimit
    /\ DOMAIN search_cache =
          (search_id_counter - Cardinality(DOMAIN search_cache) + 1)..search_id_counter
    /\ last.call = "cache_search" =>
          /\ last.result = search_id_counter
          /\ get_cached_search(search_cache, last.result) = last.args[1]
    /\ (last.call = "get_cached_search" /\ last.args[1] = search_id_counter
        /\ search_id_counter > 0) => last.result = Ti

\* the call that made the cache hold more than CacheLimit entries has
\* returned: the CacheEvicted oldest entries are gone, the rest is there
C33_Witness ==
    /\ last.call = "cache_search"
    /\ last.result = CacheLimit + 1
    /\ DOMAIN search_cache = (CacheEvicted + 1)..(CacheLimit + 1)

(* --------------------- the search dialogues of the bot ----------------- *)

\* the searches cache_search is run for in SpecQuery
MaxSearches == 2

\* BOOKS_PER_PAGE of start.py
BOOKS_PER_PAGE == 15

\* per_page of search_books when the caller passes none
DefaultPerPage == 20

\* if len(query) > 100: query = query[:100]
QueryLimit == 100

\* f"{Emoji.SEARCH} Qidirish" of user_keyboards.py
USER_SEARCH == <<"(magnifier, read as latin-1)", " ", "Q", "i", "d", "i", "r", "i", "s", "h">>

\* f"{Emoji.CANCEL} Bekor qilish" of user_keyboards.py
USER_CANCEL ==
    <<"(cross, read as latin-1)", " ", "B", "e", "k", "o", "r", " ", "q", "i", "l", "i",
      "s", "h">>

\* "<magnifier> Kitob qidirish" of adminlar.py
ADMIN_SEARCH ==
    <<"(magnifier)", " ", "K", "i", "t", "o", "b", " ", "q", "i", "d", "i", "r", "i",
      "s", "h">>

SearchState == [waiting_query |-> "SearchState:waiting_query"]

BookSearchState == [waiting_for_query |-> "BookSearchState:waiting_for_query"]

\* a call book_db.search_books(query, file_type, page, per_page) a handler
\* made, with the result it got
Searched(query, file_type, page, per_page) ==
    [query |-> query, file_type |-> file_type, page |-> page, per_page |-> per_page,
     result |-> search_books(Books, query, file_type, page, per_page)]

\* the button of the user menu; the handler asks no one's rights
search_start(op, text) ==
    /\ fsm[op] = none
    /\ text = USER_SEARCH
    /\ last' = TextMessage(op, text)
    /\ fsm' = [fsm EXCEPT ![op] = SearchState.waiting_query]
    /\ searched' = <<>>
    /\ UNCHANGED <<storeVars, data, registered, legacy_first, search_cache,
                   search_id_counter>>

search_cancel(op, text) ==
    /\ fsm[op] = SearchState.waiting_query
    /\ text = USER_CANCEL
    /\ last' = TextMessage(op, text)
    /\ finish(op)
    /\ searched' = <<>>
    /\ UNCHANGED <<storeVars, registered, legacy_first, search_cache, search_id_counter>>

\* query[:100] of a query longer than that
Cut(query) == IF Len(query) > QueryLimit THEN SubSeq(query, 1, QueryLimit) ELSE query

\* search_process: a query of fewer than 2 characters is answered with a
\* warning and the state stays; a longer one is cut to 100 characters,
\* cached, counted among the PDF and the audio books, and the dialogue ends
\* whether anything was found or not
search_process(op, text) ==
    /\ fsm[op] = SearchState.waiting_query
    /\ text # USER_CANCEL
    /\ last' = TextMessage(op, text)
    /\ LET query == strip(text) IN
       IF Len(query) < 2
       THEN /\ searched' = <<>>
            /\ UNCHANGED <<fsm, data, search_cache, search_id_counter>>
       ELSE LET cut == Cut(query)
                cached == cache_search(search_cache, search_id_counter, cut, op)
            IN  /\ search_id_counter < MaxSearches
                /\ search_cache' = cached.cache
                /\ search_id_counter' = cached.counter
                /\ searched' = <<Searched(cut, PDF, 1, 1), Searched(cut, AUDIO, 1, 1)>>
                /\ finish(op)
    /\ UNCHANGED <<storeVars, registered, legacy_first>>

\* the arguments of the callbacks "u_stype:<type>:<search_id>" and
\* "u_sp:<page>:<search_id>:<type>"
SearchArg(file_type_str, search_id, page) ==
    [file_type |-> file_type_str, search_id |-> search_id, page |-> page]

\* FileType.PDF if file_type_str == "pdf" else FileType.AUDIO
FileTypeOf(file_type_str) == IF file_type_str = "pdf" THEN PDF ELSE AUDIO

\* callback "u_stype:<type>:<search_id>": the query is read from the cache by
\* the id alone; without one the user is told the search has expired
search_type_selected(op, file_type_str, search_id) ==
    /\ fsm[op] = none
    /\ last' = CallbackQuery(op, "u_stype", SearchArg(file_type_str, search_id, 1))
    /\ LET query == get_cached_search(search_cache, search_id) IN
       IF query = NoText \/ query = <<>>
       THEN searched' = <<>>
       ELSE searched' = <<Searched(query, FileTypeOf(file_type_str), 1, BOOKS_PER_PAGE)>>
    /\ UNCHANGED <<storeVars, fsm, data, registered, legacy_first, search_cache,
                   search_id_counter>>

\* callback "u_sp:<page>:<search_id>:<type>"
search_pagination(op, page, search_id, file_type_str) ==
    /\ fsm[op] = none
    /\ last' = CallbackQuery(op, "u_sp", SearchArg(file_type_str, search_id, page))
    /\ LET query == get_cached_search(search_cache, search_id) IN
       IF query = NoText \/ query = <<>>
       THEN searched' = <<>>
       ELSE searched' = <<Searched(query, FileTypeOf(file_type_str), page, BOOKS_PER_PAGE)>>
    /\ UNCHANGED <<storeVars, fsm, data, registered, legacy_first, search_cache,
                   search_id_counter>>

\* the button of the admin menu
start_admin_search(op, text) ==
    /\ fsm[op] = none
    /\ text = ADMIN_SEARCH
    /\ last' = TextMessage(op, text)
    /\ IF check_admin_permission(op)
       THEN fsm' = [fsm EXCEPT ![op] = BookSearchState.waiting_for_query]
       ELSE UNCHANGED fsm
    /\ searched' = <<>>
    /\ UNCHANGED <<storeVars, data, registered, legacy_first, search_cache,
                   search_id_counter>>

\* process_admin_search: anything but the cancel button is trimmed and handed
\* to search_books as it is; the result is a PaginatedResult, which is never
\* false and has no len(), so the handler reports the TypeError it catches;
\* the dialogue ends in every case
process_admin_search(op, text) ==
    /\ fsm[op] = BookSearchState.waiting_for_query
    /\ last' = TextMessage(op, text)
    /\ IF text = CANCEL_OLD
       THEN searched' = <<>>
       ELSE searched' = <<Searched(strip(text), "", 1, DefaultPerPage)>>
    /\ finish(op)
    /\ UNCHANGED <<storeVars, registered, legacy_first, search_cache, search_id_counter>>

\* one PDF titled Ti and one audio book titled "au", both under Sci and live
QueryBooks ==
    add_book(add_book(EmptyTable, 1, Ti, "f1", PDF, 3, NoText, NoText, NoText, 1),
             2, <<"a", "u">>, "f2", AUDIO, 3, NoText, NoText, NoText, 1)

InitQuery ==
    /\ Categories = SeededCategories
    /\ nextCategoryId = MissingId
    /\ Books = QueryBooks
    /\ nextBookId = 3
    /\ pathCall = IdlePath
    /\ dl = IdleDownloads
    /\ InitBot
    /\ legacy_first = FALSE

\* the buttons, a query of one character, one that is a single character
\* once trimmed, one that finds the PDF and one that finds nothing
QueryTexts ==
    {USER_SEARCH, USER_CANCEL, ADMIN_SEARCH, CANCEL_OLD,
     <<"t">>, <<" ", "i", " ">>, <<"t", "i">>, <<"x", "x">>}

\* both operators search as users and as admins, and press the buttons of
\* the search results, their own and each other's
NextQuery ==
    \/ \E op \in Operators, text \in QueryTexts :
          \/ search_start(op, text)
          \/ search_cancel(op, text)
          \/ search_process(op, text)
          \/ start_admin_search(op, text)
          \/ process_admin_search(op, text)
    \/ \E op \in Operators, file_type_str \in {"pdf", "audio"},
          search_id \in 1..(MaxSearches + 1) :
          \/ search_type_selected(op, file_type_str, search_id)
          \/ \E page \in {1, 2} : search_pagination(op, page, search_id, file_type_str)

SpecQuery == InitQuery /\ [][NextQuery]_vars

\* the states in which the next message is taken as a search query
AwaitQuery == {SearchState.waiting_query, BookSearchState.waiting_for_query}

\* the message is a query of fewer than 2 characters once trimmed
ShortQuery(update) == update.kind = "text" /\ Len(strip(update.text)) < 2

\* C32: a query shorter than 2 characters after trimming, sent while the user
\* search or the admin search awaits a query, leaves the sender in the
\* query-awaiting state and runs no search_books.
C32_ShortQueryRejected ==
    [][\A op \in Operators :
          (fsm[op] \in AwaitQuery /\ last'.op = op /\ ShortQuery(last')) =>
             /\ fsm'[op] = fsm[op]
             /\ searched' = <<>>]_vars

\* the admin search ran search_books for the query "i" and ended the dialogue
C32_AdminSearchRunsShortQuery ==
    /\ ShortQuery(last)
    /\ last.text = <<" ", "i", " ">>
    /\ fsm[last.op] = none
    /\ Len(searched) = 1
    /\ searched[1].query = <<"i">>
    /\ searched[1].result.total = 1

(* ------------------- a soft-deleted book and the users ----------------- *)

\* BookDatabase.get_book_by_id: the row of this id, deleted or not
get_book_by_id(books, book_id) ==
    IF book_id \in DOMAIN books THEN books[book_id] ELSE NoRow

\* what show_book_detail put on the screen of user p
Detail(p, book_id, shown) ==
    Update(p, "detail", NoText, "", IF shown THEN "shown" ELSE "not found", book_id)

\* callback "u_book:<id>": the book is fetched by id and its description
\* with the download button is shown; without a row the user is told so
show_book_detail(p, book_id) ==
    /\ last' = Detail(p, book_id, get_book_by_id(Books, book_id) # NoRow)
    /\ UNCHANGED <<storeVars, fsm, data, registered, legacy_first, searchVars>>

\* books are added, operator 1 deletes and restores them, and two users look
\* at them and download them by their ids
NextHidden ==
    \/ \E file_id \in {"f1", "f2"} : IncAddBook(file_id)
    \/ \E item_id \in 1..MaxBooks : confirm_yes(1, "del_book", item_id)
    \/ \E book_id \in 1..MaxBooks : restore_book(1, book_id)
    \/ \E p \in Operators, book_id \in 1..MaxBooks :
          \/ show_book_detail(p, book_id)
          \/ download_book(p, book_id)
    \/ \E p \in Operators, delivered \in BOOLEAN : send_book_file_callback(p, delivered)

SpecHidden == Init /\ [][NextHidden]_vars

\* C34: while a book is soft-deleted, the detail view by id does not show it,
\* the download by id does not start delivering it, and no step adds to its
\* download_count.
C34_DeletedBookHidden ==
    [][/\ \A p \in Operators :
             (dl[p].pc = "idle" /\ dl'[p].pc = "send") =>
                ~Books[dl'[p].book_id].is_deleted
       /\ (last'.kind = "detail" /\ last'.cb = "shown") => ~Books[last'.arg].is_deleted
       /\ \A b \in DOMAIN Books \cap DOMAIN Books' :
             Books[b].is_deleted =>
                Books'[b].download_count = Books[b].download_count]_vars

\* the download button of a soft-deleted book was pressed and the book was
\* fetched for delivery
C34_DeletedBookFetched ==
    /\ last.kind = "callback" /\ last.cb = "u_dl"
    /\ last.arg \in DOMAIN Books
    /\ Books[last.arg].is_deleted
    /\ dl[last.op].pc = "send"
    /\ dl[last.op].book_id = last.arg

(* ------------------------- the list of the trash ----------------------- *)

\* BookDatabase.get_deleted_books: get_books(include_deleted = True, ...)
get_deleted_books(books, page, per_page) ==
    get_books(books, NULL, "", TRUE, page, per_page)

\* BookDatabase.get_deleted_items_count: COUNT(*) ... WHERE is_deleted = 1 of
\* both tables
get_deleted_items_count(categories, books) ==
    [books |-> Cardinality({b \in DOMAIN books : books[b].is_deleted}),
     categories |-> Cardinality({c \in DOMAIN categories : categories[c].is_deleted})]

\* book_db.get_deleted_books(page = page, per_page = per_page)
call_get_deleted_books(page, per_page) ==
    /\ last' = StoreCall("get_deleted_books", <<page, per_page>>,
                         get_deleted_books(Books, page, per_page))
    /\ UNCHANGED <<storeVars, fsm, data, registered, legacy_first, searchVars>>

\* book_db.get_deleted_items_count()
call_get_deleted_items_count ==
    /\ last' = StoreCall("get_deleted_items_count", <<>>,
                         get_deleted_items_count(Categories, Books))
    /\ UNCHANGED <<storeVars, fsm, data, registered, legacy_first, searchVars>>

\* the trash is listed page by page and counted, over every table of at most
\* MaxRows books, deleted or live
NextDeleted ==
    \/ \E page \in PageNumbers, per_page \in PageSizes : call_get_deleted_books(page, per_page)
    \/ call_get_deleted_items_count

SpecDeleted == InitPages /\ [][NextDeleted]_vars

\* C36: every book get_deleted_books returns is soft-deleted, and its total is
\* the number of soft-deleted books get_deleted_items_count reports.
C36_DeletedListHoldsTrash ==
    last.call = "get_deleted_books" =>
       /\ \A i \in 1..Len(last.result.items) : Books[last.result.items[i]].is_deleted
       /\ last.result.total = get_deleted_items_count(Categories, Books).books

\* the list of the trash of a table with one live book and no deleted one
\* shows that book and gives a total of 1
C36_LiveBookListed ==
    /\ last.call = "get_deleted_books"
    /\ last.args = <<1, 1>>
    /\ get_deleted_items_count(Categories, Books).books = 0
    /\ last.result.total = 1
    /\ last.result.items = <<1>>
    /\ ~Books[1].is_deleted

(* ---------------- the file of a deleted book, sent again --------------- *)

\* what operator 1 sends in SpecResend: the PDF and the audio file, a title,
\* and the skip button at every other prompt
ResendInputs ==
    [main_ids |-> {1, 3}, sub_ids |-> {2}, files |-> {"f1", "f2"},
     titles |-> {Ti}, authors |-> {SKIP}, narrators |-> {SKIP},
     descriptions |-> {SKIP}]

\* operator 1 uploads books one at a time, deletes them and restores them
NextResend ==
    \/ SingleUpload(1, ResendInputs)
    \/ \E item_id \in 1..MaxBooks : confirm_yes(1, "del_book", item_id)
    \/ \E book_id \in 1..MaxBooks : restore_book(1, book_id)

SpecResend == InitTrash /\ [][NextResend]_vars

\* the update of this step is a PDF or audio file for the upload dialogue of
\* this operator, and the books that have the file are all soft-deleted
SendsFileOfDeletedBook(op) ==
    /\ fsm[op] = AdminBookState.upload_file
    /\ last'.op = op
    /\ last'.kind = "file"
    /\ extract_file_data(last'.file_id) # NoFile
    /\ RowsByFile(Books, last'.file_id) # {}
    /\ \A b \in RowsByFile(Books, last'.file_id) : Books[b].is_deleted

\* C37: a file that only soft-deleted books have is accepted by the upload
\* dialogue of one book: the file is kept and the dialogue asks for the title.
C37_DeletedBookNoDuplicate ==
    [][\A op \in Operators :
          SendsFileOfDeletedBook(op) =>
             /\ fsm'[op] = AdminBookState.enter_title
             /\ data'[op].file_id = last'.file_id]_vars

\* the file of book 1, which is soft-deleted, was sent to the upload dialogue
\* and the dialogue still waits for a file
C37_FileOfDeletedBookRefused ==
    /\ last.kind = "file" /\ last.file_id = "f1"
    /\ 1 \in DOMAIN Books
    /\ RowsByFile(Books, "f1") = {1}
    /\ Books[1].is_deleted
    /\ fsm[1] = AdminBookState.upload_file
    /\ data[1].file_id = ""

(* ------------------ EditBookState: editing one field ------------------- *)
\* edit_book_handlers.py reads a book by position (book[4]), as adminlar.py
\* reads its rows; it is modelled against the tuple rows it was written for.

EditBookState ==
    [waiting_for_new_author |-> "EditBookState:waiting_for_new_author",
     waiting_for_new_narrator |-> "EditBookState:waiting_for_new_narrator",
     waiting_for_new_description |-> "EditBookState:waiting_for_new_description"]

\* BookDatabase.update_book(book_id, author =, narrator =, description =): the
\* arguments that are not None are SET, `given` being the keywords of the
\* call; with none left no statement runs and the table is as it was
update_book(table, book_id, author, narrator, description, given) ==
    LET updates == {field \in given :
                       \/ field = "author" /\ author # NoText
                       \/ field = "narrator" /\ narrator # NoText
                       \/ field = "description" /\ description # NoText}
    IN  IF book_id \in DOMAIN table /\ updates # {}
        THEN [table EXCEPT ![book_id].author = IF "author" \in updates THEN author ELSE @,
                           ![book_id].narrator =
                              IF "narrator" \in updates THEN narrator ELSE @,
                           ![book_id].description =
                              IF "description" \in updates THEN description ELSE @]
        ELSE table

\* the callbacks "edit_author:<id>", "edit_narrator:<id>" and
\* "edit_description:<id>": the id is stored, and reading the fetched book
\* for the prompt fails when there is no such book, before the state is set
EditStart(op, cb, book_id, state) ==
    /\ fsm[op] = none
    /\ last' = CallbackQuery(op, cb, book_id)
    /\ data' = [data EXCEPT ![op].edit_book_id = book_id]
    /\ IF get_book_by_id(Books, book_id) = NoRow THEN UNCHANGED fsm
       ELSE fsm' = [fsm EXCEPT ![op] = state]
    /\ UNCHANGED <<storeVars, registered, legacy_first, searchVars>>

\* None if message.text == "<next-track> O'tkazib yuborish" else message.text.strip()
NewValue(text) == IF text = SKIP_OLD THEN NoText ELSE strip(text)

edit_book_author_start(op, book_id) ==
    EditStart(op, "edit_author", book_id, EditBookState.waiting_for_new_author)

\* the answer to the prompt: the cancel button ends the dialogue; anything
\* else goes to update_book_author, the change is reported whatever
\* update_book returned, and the dialogue ends
edit_book_author_save(op, text) ==
    /\ fsm[op] = EditBookState.waiting_for_new_author
    /\ last' = TextMessage(op, text)
    /\ IF text = CANCEL_OLD THEN UNCHANGED Books
       ELSE Books' = update_book(Books, data[op].edit_book_id, NewValue(text), NoText,
                                 NoText, {"author"})
    /\ finish(op)
    /\ UNCHANGED <<Categories, nextCategoryId, nextBookId, pathCall, dl, registered,
                   legacy_first, searchVars>>

edit_book_narrator_start(op, book_id) ==
    EditStart(op, "edit_narrator", book_id, EditBookState.waiting_for_new_narrator)

edit_book_narrator_save(op, text) ==
    /\ fsm[op] = EditBookState.waiting_for_new_narrator
    /\ last' = TextMessage(op, text)
    /\ IF text = CANCEL_OLD THEN UNCHANGED Books
       ELSE Books' = update_book(Books, data[op].edit_book_id, NoText, NewValue(text),
                                 NoText, {"narrator"})
    /\ finish(op)
    /\ UNCHANGED <<Categories, nextCategoryId, nextBookId, pathCall, dl, registered,
                   legacy_first, searchVars>>

edit_book_description_start(op, book_id) ==
    EditStart(op, "edit_description", book_id, EditBookState.waiting_for_new_description)

edit_book_description_save(op, text) ==
    /\ fsm[op] = EditBookState.waiting_for_new_description
    /\ last' = TextMessage(op, text)
    /\ IF text = CANCEL_OLD THEN UNCHANGED Books
       ELSE Books' = update_book(Books, data[op].edit_book_id, NoText, NoText,
                                 NewValue(text), {"description"})
    /\ finish(op)
    /\ UNCHANGED <<Categories, nextCategoryId, nextBookId, pathCall, dl, registered,
                   legacy_first, searchVars>>

\* one audio book with an author, a narrator and a description
EditBooks == add_book(EmptyTable, 1, Ti, "f2", AUDIO, 3, Au, <<"N", "a">>, <<"d">>, 1)

InitEdit ==
    /\ Categories = SeededCategories
    /\ nextCategoryId = MissingId
    /\ Books = EditBooks
    /\ nextBookId = 2
    /\ pathCall = IdlePath
    /\ dl = IdleDownloads
    /\ InitBot
    /\ legacy_first = FALSE

\* the skip button, the cancel button and a new value between blanks
EditTexts == {SKIP_OLD, CANCEL_OLD, <<" ", "N", "e", "w">>}

\* both operators edit the author, the narrator and the description of the
\* book and of a book that does not exist
NextEdit ==
    \/ \E op \in Operators, book_id \in 1..2 :
          \/ edit_book_author_start(op, book_id)
          \/ edit_book_narrator_start(op, book_id)
          \/ edit_book_description_start(op, book_id)
    \/ \E op \in Operators, text \in EditTexts :
          \/ edit_book_author_save(op, text)
          \/ edit_book_narrator_save(op, text)
          \/ edit_book_description_save(op, text)

SpecEdit == InitEdit /\ [][NextEdit]_vars

\* the field a state of the edit dialogue asks for
EditedField(state, row) ==
    IF state = EditBookState.waiting_for_new_author THEN row.author
    ELSE IF state = EditBookState.waiting_for_new_narrator THEN row.narrator
    ELSE row.description

\* C38: when the author, narrator or description prompt of the edit dialogue
\* is answered with the skip button, get_book_by_id of the edited book then
\* returns null for that field.
C38_SkipSetsNull ==
    [][\A op \in Operators :
          (/\ fsm[op] \in {EditBookState.waiting_for_new_author,
                           EditBookState.waiting_for_new_narrator,
                           EditBookState.waiting_for_new_description}
           /\ last'.op = op /\ last'.kind = "text" /\ last'.text = SKIP_OLD) =>
             /\ fsm'[op] = none
             /\ EditedField(fsm[op], get_book_by_id(Books', data[op].edit_book_id)) = NoText]_vars

\* a prompt about the book was answered with the skip button, the dialogue is
\* over, and the book has the author, the narrator and the description it had
C38_SkippedFieldKept ==
    /\ last = TextMessage(1, SKIP_OLD)
    /\ fsm[1] = none
    /\ fsm[2] = none
    /\ data[2].edit_book_id = NULL
    /\ Books = EditBooks

(* ------------------- whose search a callback reads --------------------- *)

\* the update is a button of a search result whose id is in the cache under
\* another user
PressesForeignSearch(update) ==
    /\ update.kind = "callback"
    /\ update.cb \in {"u_stype", "u_sp"}
    /\ update.arg.search_id \in DOMAIN search_cache
    /\ search_cache[update.arg.search_id].user_id # update.op

\* C39: a search-type or search-pagination callback of one user that names a
\* search cached by another user obtains no query: no search runs for it.
C39_CachedQueryOnlyForOwner ==
    PressesForeignSearch(last) => searched = <<>>

\* operator 2 pressed the PDF button of search 1, which operator 1 made, and
\* was shown the result of operator 1's query
C39_ForeignQueryObtained ==
    /\ last.kind = "callback" /\ last.cb = "u_stype" /\ last.op = 2
    /\ last.arg = SearchArg("pdf", 1, 1)
    /\ 1 \in DOMAIN search_cache
    /\ search_cache[1] = [query |-> <<"t", "i">>, user_id |-> 1]
    /\ Len(searched) = 1
    /\ searched[1].query = <<"t", "i">>
    /\ searched[1].result.items = <<1>>

(* ----------------------- has_next and has_prev ------------------------- *)

\* the items of the page after the one the last call asked for
NextPageItems ==
    IF last.call = "get_books"
    THEN Page(last.args[1], last.args[2] + 1, last.args[3]).items
    ELSE search_books(Books, last.args[1], "", last.args[2] + 1, last.args[3]).items

\* C40: the PaginatedResult of every get_books and search_books call for a
\* page >= 1 has has_prev true exactly when the page is greater than 1, and
\* has_next true exactly when the next page holds at least one item.
C40_HasNextHasPrev ==
    (last.call \in {"get_books", "search_books"} /\ last.args[2] >= 1) =>
       /\ last.result.has_prev <=> last.args[2] > 1
       /\ last.result.has_next <=> NextPageItems # <<>>

\* page 2 of two live books, one to a page: a full page, the last one, with a
\* page before it and none after it
C40_Witness ==
    /\ last.call = "get_books"
    /\ last.args[2] = 2 /\ last.args[3] = 1
    /\ last.result.total = 2
    /\ Len(last.result.items) = 1
    /\ last.result.has_prev
    /\ ~last.result.has_next

(* ------------------- a user who is no administrator -------------------- *)

\* a telegram user that is not in ADMINS and has no admin row
Guests == {3}

Everyone == Operators \cup Guests

\* the seeded catalog with no book; the operators and the guest in no dialogue
InitGuest ==
    /\ Categories = SeededCategories
    /\ nextCategoryId = MissingId
    /\ Books = EmptyTable
    /\ nextBookId = 1
    /\ pathCall = IdlePath
    /\ dl = IdleDownloads
    /\ fsm = [u \in Everyone |-> none]
    /\ InitSearchCache
    /\ data = [u \in Everyone |-> EmptyData]
    /\ registered = FALSE
    /\ legacy_first = FALSE
    /\ last = NoUpdate

\* books are filed under Sci by the store's add_book; operator 1 and the
\* guest send the texts of the menu buttons that open a dialogue; the guest
\* sends the callbacks of the confirm and restore buttons, and downloads
\* book 1
NextGuest ==
    \/ TrashAddBook(Ti, 3)
    \/ \E u \in {1} \cup Guests :
          \/ add_category_start(u, ADD_CATEGORY)
          \/ add_book_start(u, UPLOAD_BOOK)
          \/ bulk_upload_start(u, BULK_UPLOAD)
          \/ start_batch_upload(u, BATCH_UPLOAD)
          \/ cancel_any(u, CANCEL)
    \/ \E u \in Guests :
          \/ \E action \in {"del_book", "hard_del_book"}, item_id \in 1..MaxBooks :
                confirm_yes(u, action, item_id)
          \/ confirm_yes(u, "del_cat", 1)
          \/ \E book_id \in 1..MaxBooks : restore_book(u, book_id)
          \/ restore_category(u, 1)
          \/ download_book(u, 1)
          \/ \E delivered \in BOOLEAN : send_book_file_callback(u, delivered)

SpecGuest == InitGuest /\ [][NextGuest]_vars

\* the rows of a table of books with their download counts left out
WithoutCounts(table) == [b \in DOMAIN table |-> [table[b] EXCEPT !.download_count = 0]]

\* C35: a step taken for a user for whom is_admin does not hold leaves that
\* user in no dialogue and changes nothing in the store but download counts.
C35_OnlyAdminsMutate ==
    [][(last'.op \in Everyone /\ ~is_admin(last'.op)) =>
          /\ fsm'[last'.op] = none
          /\ Categories' = Categories
          /\ WithoutCounts(Books') = WithoutCounts(Books)]_vars

\* the guest removed book 1 for good with the confirm callback and is now in
\* the guided batch upload, asked to choose a category
C35_GuestDeletesAndUploads ==
    /\ last = TextMessage(3, BATCH_UPLOAD)
    /\ fsm[3] = BatchUploadState.waiting_for_category
    /\ nextBookId = 2
    /\ Books = EmptyTable

====
